---------------------------- MODULE Spec2Model ----------------------------
(***************************************************************************)
(* Model of the linux-fs server core: the metadata catalog (repos, files), *)
(* the write-ahead log, the snapshot store, the byte store and the         *)
(* request handlers and background tasks that coordinate them.             *)
(*                                                                         *)
(* Every handler is a chain of steps, one step per access to shared state  *)
(* (a DashMap access, a WAL append, a group of filesystem calls).  A step  *)
(* is an operator from (world, frame) to the set of possible successors;   *)
(* the set is empty when the step is blocked on a DashMap lock.  The       *)
(* one-at-a-time specification runs a handler to completion in a single    *)
(* action, the concurrent specifications interleave the same steps.        *)
(***************************************************************************)
EXTENDS Integers, Sequences, FiniteSets, TLC

VARIABLES
    repos,      \* AppState.repos: repo id -> RepoMeta
    files,      \* AppState.files: repo id -> (path -> FileMeta)
    wal,        \* content of metadata/wal/current.wal: sequence of WalEntry
    snapshot,   \* content of metadata/snapshot.bin
    disk,       \* byte store: repo id -> tree under repos/<id>/files
    guards,     \* repo id -> tasks holding a DashMap Ref on repos[id]
    clock,      \* Utc::now(), in seconds
    procs,      \* task id -> frame (position and locals of the task)
    used_ids,   \* repo ids Uuid::new_v4 has handed out
    nops,       \* requests and sweeps started so far
    wal_file,   \* bytes of a WAL file, and what was appended to it
    path_io,    \* an input of validate_relative_path and its results
    shell,      \* command_semaphore and the exec requests
    main        \* main() from axum::serve on, and the background loops

vars == <<repos, files, wal, snapshot, disk, guards, clock, procs, used_ids, nops,
          wal_file, path_io, shell, main>>

-----------------------------------------------------------------------------
(* Bounds of the model *)

\* calls (requests and sweeps) made in one behaviour
MaxOps == 3
\* calls made one at a time before two requests overlap
MaxSetup == 2
\* the instants the clock shows
Times == {0, 1}

(* Inputs *)

RepoIds == {"r1"}
Segs == {"a", "b"}
Paths == {<<"a">>, <<"b">>, <<"a", "b">>}
Bodies == {<<1>>, <<2, 2>>}
Root == << >>

\* Option<T>: NoneOf(z) is None, z a value of T that is never read
NoneOf(z) == [some |-> FALSE, v |-> z]
None == NoneOf(0)
Some(x) == [some |-> TRUE, v |-> x]

-----------------------------------------------------------------------------
(* Finite maps (HashMap / DashMap): functions whose domain is the key set *)

EmptyMap == [x \in {} |-> 0]
Put(m, k, v) == [x \in (DOMAIN m) \cup {k} |-> IF x = k THEN v ELSE m[x]]
Drop(m, k) == [x \in (DOMAIN m) \ {k} |-> m[x]]
Has(m, k) == k \in DOMAIN m

RECURSIVE SumOver(_, _)
SumOver(m, S) ==
    IF S = {} THEN 0
    ELSE LET k == CHOOSE x \in S : TRUE IN m[k].size_bytes + SumOver(m, S \ {k})

SumSizes(m) == SumOver(m, DOMAIN m)

-----------------------------------------------------------------------------
(* u64 arithmetic.  A u64 is written as a small integer; a negative n     *)
(* stands for 2^64 + n, the value a wrapping subtraction leaves.          *)

ULt(a, b) == (a >= 0 /\ b < 0) \/ (((a >= 0) = (b >= 0)) /\ a < b)
UGt(a, b) == ULt(b, a)
SaturatingSub(a, b) == IF ULt(a, b) THEN 0 ELSE a - b
\* a - b + c evaluated left to right: the outcomes of the two build profiles
\* (overflow checks on: panic; off: wrap)
SubAddOverflows(a, b, c) == ULt(a, b) \/ (a - b < 0 /\ a - b + c >= 0)
AddOverflows(a, c) == a < 0 /\ a + c >= 0

-----------------------------------------------------------------------------
(* Byte store.  disk[r] is the tree under repos/<r>/files: a map from a   *)
(* node (a sequence of path segments) to a directory or a file with its   *)
(* bytes.  r is not in DOMAIN disk when the repository directory is       *)
(* absent.                                                                 *)

DirNode == [kind |-> "dir", data |-> << >>]
FileNode(d) == [kind |-> "file", data |-> d]

Parent(p) == SubSeq(p, 1, Len(p) - 1)
IsUnder(p, dir) == Len(p) > Len(dir) /\ SubSeq(p, 1, Len(dir)) = dir
Rebase(p, from, to) == to \o SubSeq(p, Len(from) + 1, Len(p))

\* the tree of repository r (empty when the directory is absent)
Tree(dk, r) == IF Has(dk, r) THEN dk[r] ELSE EmptyMap

\* Path::exists on repos/<r>/files/<p>
FsExists(dk, r, p) == Has(dk, r) /\ (p = Root \/ Has(dk[r], p))
FsIsDir(dk, r, p) == Has(dk, r) /\ (p = Root \/ (Has(dk[r], p) /\ dk[r][p].kind = "dir"))
FsIsFile(dk, r, p) == Has(dk, r) /\ Has(dk[r], p) /\ dk[r][p].kind = "file"
FsChildren(dk, r, dir) == {q \in DOMAIN Tree(dk, r) : IsUnder(q, dir)}

FsOk(dk) == [ok |-> TRUE, dk |-> dk]
FsErr(dk) == [ok |-> FALSE, dk |-> dk]

\* fs::create_dir_all(repos/<r>/files/<p>)
RECURSIVE CreateDirAll(_, _, _)
CreateDirAll(dk, r, p) ==
    IF p = Root
    THEN FsOk(IF Has(dk, r) THEN dk ELSE Put(dk, r, EmptyMap))
    ELSE LET up == CreateDirAll(dk, r, Parent(p)) IN
         IF ~up.ok THEN up
         ELSE IF FsIsFile(up.dk, r, p) THEN FsErr(up.dk)
         ELSE IF FsIsDir(up.dk, r, p) THEN up
         ELSE FsOk(Put(up.dk, r, Put(up.dk[r], p, DirNode)))

\* File::create + write_all + flush: creates or truncates a regular file
FsWrite(dk, r, p, d) ==
    IF ~FsIsDir(dk, r, Parent(p)) \/ FsIsDir(dk, r, p) THEN FsErr(dk)
    ELSE FsOk(Put(dk, r, Put(dk[r], p, FileNode(d))))

\* fs::remove_file
FsRemoveFile(dk, r, p) ==
    IF ~FsIsFile(dk, r, p) THEN FsErr(dk)
    ELSE FsOk(Put(dk, r, Drop(dk[r], p)))

\* fs::rename(src, dst), as rename(2)
FsRename(dk, r, src, dst) ==
    IF ~FsExists(dk, r, src) \/ ~FsIsDir(dk, r, Parent(dst)) THEN FsErr(dk)
    ELSE IF src = dst THEN FsOk(dk)
    ELSE IF FsIsFile(dk, r, src)
    THEN IF FsIsDir(dk, r, dst) THEN FsErr(dk)
         ELSE FsOk(Put(dk, r, Put(Drop(dk[r], src), dst, dk[r][src])))
    ELSE \* src is a directory
         IF FsIsFile(dk, r, dst) \/ IsUnder(dst, src)
            \/ (FsIsDir(dk, r, dst) /\ FsChildren(dk, r, dst) # {})
         THEN FsErr(dk)
         ELSE LET t == dk[r]
                  moved == {q \in DOMAIN t : q = src \/ IsUnder(q, src)}
                  kept == (DOMAIN t) \ moved
                  new == {Rebase(q, src, dst) : q \in moved}
              IN FsOk(Put(dk, r,
                     [q \in kept \cup new |->
                        IF q \in new
                        THEN t[CHOOSE o \in moved : Rebase(o, src, dst) = q]
                        ELSE t[q]]))

\* fs::copy(src, dst): src must be a regular file
FsCopy(dk, r, src, dst) ==
    IF ~FsIsFile(dk, r, src) \/ ~FsIsDir(dk, r, Parent(dst)) \/ FsIsDir(dk, r, dst)
    THEN FsErr(dk)
    ELSE FsOk(Put(dk, r, Put(dk[r], dst, dk[r][src])))

\* fs::remove_dir_all(repos/<r>)
FsRemoveDirAll(dk, r) == Drop(dk, r)

\* cleanup_empty_dirs(root, file_path): remove the now empty parents
RECURSIVE CleanupFrom(_, _, _)
CleanupFrom(dk, r, dir) ==
    IF dir = Root THEN dk
    ELSE IF ~FsIsDir(dk, r, dir) THEN dk
    ELSE IF FsChildren(dk, r, dir) # {} THEN dk
    ELSE CleanupFrom(Put(dk, r, Drop(dk[r], dir)), r, Parent(dir))

cleanup_empty_dirs(dk, r, file_path) == CleanupFrom(dk, r, Parent(file_path))

-----------------------------------------------------------------------------
(* Records.  A RepoMeta is keyed by its id and a FileMeta by (repo id,    *)
(* path), so the id and path fields are the keys of the maps; the content *)
(* type is a function of the path.                                         *)

Sha256Hex(d) == <<"sha256">> \o d

RepoMeta(name, max_size, ttl, now) ==
    [name |-> name, max_size_bytes |-> max_size, current_size_bytes |-> 0,
     file_count |-> 0, created_at |-> now, updated_at |-> now,
     default_ttl_seconds |-> ttl, tags |-> "none"]

FileMeta(size, etag, now, expires) ==
    [size_bytes |-> size, etag |-> etag, created_at |-> now, updated_at |-> now,
     last_accessed_at |-> now, access_count |-> 0, expires_at |-> expires]

(* WalEntry variants *)
RepoCreated(id, name, max_size, ttl, now) ==
    [type |-> "RepoCreated", id |-> id, name |-> name, max_size_bytes |-> max_size,
     default_ttl_seconds |-> ttl, created_at |-> now]
RepoUpdated(id, patch, now) ==
    [type |-> "RepoUpdated", id |-> id, name |-> patch.name,
     max_size_bytes |-> patch.max_size_bytes,
     default_ttl_seconds |-> patch.default_ttl_seconds, tags |-> patch.tags,
     updated_at |-> now]
RepoDeleted(id) == [type |-> "RepoDeleted", id |-> id]
FileCreated(id, path, size, etag, now, expires) ==
    [type |-> "FileCreated", repo_id |-> id, path |-> path, size_bytes |-> size,
     etag |-> etag, created_at |-> now, expires_at |-> expires]
FileDeleted(id, path) == [type |-> "FileDeleted", repo_id |-> id, path |-> path]
FileMoved(id, source, destination, now) ==
    [type |-> "FileMoved", repo_id |-> id, source |-> source,
     destination |-> destination, updated_at |-> now]

\* the fields of an UpdateRepoRequest a patch applies: Option per field,
\* Option<Option<u64>> for default_ttl_seconds
ApplyPatch(repo, e) ==
    [repo EXCEPT
        !.name = IF e.name.some THEN e.name.v ELSE @,
        !.max_size_bytes = IF e.max_size_bytes.some THEN e.max_size_bytes.v ELSE @,
        !.default_ttl_seconds =
            IF e.default_ttl_seconds.some THEN e.default_ttl_seconds.v ELSE @,
        !.tags = IF e.tags.some THEN e.tags.v ELSE @,
        !.updated_at = e.updated_at]

-----------------------------------------------------------------------------
(* Recovery: snapshot load, WAL replay, filesystem reconciliation.        *)
(* A catalog is [repos, files].                                            *)

EmptyCatalog == [repos |-> EmptyMap, files |-> EmptyMap]
\* the metadata directory: the file at the snapshot path (present, its
\* catalog, torn when it holds only a part of a serialization) and the
\* staging file beside it (tmp: "absent", "torn" or "whole")
NoSnapshot ==
    [present |-> FALSE, repos |-> EmptyMap, files |-> EmptyMap, torn |-> FALSE,
     tmp |-> "absent"]

\* accounting of a replayed FileCreated
ReplayCreatedStats(repo, size) ==
    [repo EXCEPT !.current_size_bytes = @ + size, !.file_count = @ + 1]

ReplayEntry(c, e) ==
    CASE e.type = "RepoCreated" ->
            [repos |-> Put(c.repos, e.id,
                           RepoMeta(e.name, e.max_size_bytes, e.default_ttl_seconds,
                                    e.created_at)),
             files |-> IF Has(c.files, e.id) THEN c.files
                       ELSE Put(c.files, e.id, EmptyMap)]
      [] e.type = "RepoUpdated" ->
            IF Has(c.repos, e.id)
            THEN [c EXCEPT !.repos = Put(c.repos, e.id, ApplyPatch(c.repos[e.id], e))]
            ELSE c
      [] e.type = "RepoDeleted" ->
            [repos |-> Drop(c.repos, e.id), files |-> Drop(c.files, e.id)]
      [] e.type = "FileCreated" ->
            LET m == IF Has(c.files, e.repo_id) THEN c.files[e.repo_id] ELSE EmptyMap
                meta == FileMeta(e.size_bytes, e.etag, e.created_at, e.expires_at)
            IN [repos |-> IF Has(c.repos, e.repo_id)
                          THEN Put(c.repos, e.repo_id,
                                   ReplayCreatedStats(c.repos[e.repo_id], e.size_bytes))
                          ELSE c.repos,
                files |-> Put(c.files, e.repo_id, Put(m, e.path, meta))]
      [] e.type = "FileDeleted" ->
            IF Has(c.files, e.repo_id) /\ Has(c.files[e.repo_id], e.path)
            THEN LET meta == c.files[e.repo_id][e.path] IN
                 [repos |-> IF Has(c.repos, e.repo_id)
                            THEN Put(c.repos, e.repo_id,
                                     [c.repos[e.repo_id] EXCEPT
                                        !.current_size_bytes =
                                            SaturatingSub(@, meta.size_bytes),
                                        !.file_count = SaturatingSub(@, 1)])
                            ELSE c.repos,
                  files |-> Put(c.files, e.repo_id, Drop(c.files[e.repo_id], e.path))]
            ELSE c
      [] e.type = "FileMoved" ->
            IF Has(c.files, e.repo_id) /\ Has(c.files[e.repo_id], e.source)
            THEN LET m == c.files[e.repo_id]
                     meta == [m[e.source] EXCEPT !.updated_at = e.updated_at]
                 IN [c EXCEPT !.files =
                        Put(c.files, e.repo_id,
                            Put(Drop(m, e.source), e.destination, meta))]
            ELSE c
      [] OTHER -> c

RECURSIVE replay_wal_entries(_, _)
replay_wal_entries(c, entries) ==
    IF entries = << >> THEN c
    ELSE replay_wal_entries(ReplayEntry(c, Head(entries)), Tail(entries))

\* the part of reconcile_filesystem for one repository
ReconcileRepo(c, dk, r) ==
    IF ~FsExists(dk, r, Root)
    THEN [repos |-> Drop(c.repos, r), files |-> Drop(c.files, r)]
    ELSE LET kept == IF Has(c.files, r)
                     THEN [p \in {q \in DOMAIN c.files[r] : FsExists(dk, r, q)}
                             |-> c.files[r][p]]
                     ELSE EmptyMap
             fs == IF Has(c.files, r) THEN Put(c.files, r, kept) ELSE c.files
         IN [repos |-> Put(c.repos, r,
                           [c.repos[r] EXCEPT
                              !.current_size_bytes = SumSizes(kept),
                              !.file_count = Cardinality(DOMAIN kept)]),
             files |-> fs]

RECURSIVE ReconcileAll(_, _, _)
ReconcileAll(c, dk, ids) ==
    IF ids = {} THEN c
    ELSE LET r == CHOOSE x \in ids : TRUE
         IN ReconcileAll(ReconcileRepo(c, dk, r), dk, ids \ {r})

reconcile_filesystem(c, dk) == ReconcileAll(c, dk, DOMAIN c.repos)

load_snapshot(s) ==
    IF s.present /\ ~s.torn THEN [repos |-> s.repos, files |-> s.files]
    ELSE EmptyCatalog

\* main(): the catalog the server starts with
Recover(s, w, dk) ==
    reconcile_filesystem(replay_wal_entries(load_snapshot(s), w), dk)

-----------------------------------------------------------------------------
(* Tasks.  A frame holds the position (pc) and the locals of one task: a  *)
(* request handler or a background task.  trace lists, in order, what the *)
(* current call has done to the WAL, the byte store and the catalog.      *)

NoPatch == [name |-> NoneOf("none"), max_size_bytes |-> None,
            default_ttl_seconds |-> NoneOf(None), tags |-> NoneOf("none")]
NoMeta == FileMeta(0, << >>, 0, None)

IdleFrame(id) ==
    [id |-> id, pc |-> "idle", op |-> "none", result |-> "none", trace |-> << >>,
     \* arguments
     repo |-> "none", path |-> Root, dst |-> Root, data |-> << >>, ttl |-> None,
     name |-> "none", max_size |-> 0, patch |-> NoPatch,
     \* locals of upload_file / copy_file / move_file
     default_ttl |-> None, now |-> 0, expires_at |-> None, old_size |-> 0,
     is_new |-> FALSE, meta |-> NoMeta,
     \* locals of evict_bytes / evict_continue and its return address
     needed |-> 0, freed |-> 0, scored |-> << >>, idx |-> 0, eret |-> "none",
     eres |-> "none",
     \* locals of delete_file and its return address
     dpath |-> Root, file_size |-> 0, dret |-> "none", dres |-> "none",
     \* locals of the sweeps
     todo_repos |-> {}, todo_paths |-> {}, expired |-> 0,
     \* locals of write_snapshot
     snap_repos |-> EmptyMap, snap_files |-> EmptyMap,
     \* whether the call ran step by step beside other tasks
     stepwise |-> FALSE]

One(w, f) == {[w |-> w, f |-> f]}
To(w, f, pc) == One(w, [f EXCEPT !.pc = pc])
Ev(f, ev, type, path) == Append(f.trace, [ev |-> ev, type |-> type, path |-> path])

\* dropping every DashMap Ref the task holds (scope end or unwinding)
Release(w, id) == [w EXCEPT !.guards = [r \in DOMAIN @ |-> @[r] \ {id}]]

\* the call returns: locals are gone, arguments and result are kept
Done(f, res) ==
    [IdleFrame(f.id) EXCEPT
        !.pc = "done", !.op = f.op, !.result = res, !.trace = f.trace,
        !.repo = f.repo, !.path = f.path, !.dst = f.dst, !.data = f.data,
        !.ttl = f.ttl, !.name = f.name, !.max_size = f.max_size, !.patch = f.patch,
        !.freed = f.freed, !.expired = f.expired, !.stepwise = f.stepwise]
Finish(w, f, res) == One(Release(w, f.id), Done(f, res))

\* DashMap::get_mut / insert / remove on repos[r] wait for every Ref on it
WriteBlocked(w, r) == r \in DOMAIN w.guards /\ w.guards[r] # {}

RepoFiles(w, r) == IF Has(w.files, r) THEN w.files[r] ELSE EmptyMap
HasFile(w, r, p) == Has(w.files, r) /\ Has(w.files[r], p)

-----------------------------------------------------------------------------
(* file_service::delete_file(state, f.repo, f.dpath); returns to f.dret    *)

DfReturn(w, f, res) == One(w, [f EXCEPT !.pc = f.dret, !.dres = res])

\* an accounting that gives back the bytes and keeps the count
DeleteStatsKeepsCount(repo, file_size, now) ==
    [repo EXCEPT !.current_size_bytes = SaturatingSub(@, file_size),
                 !.updated_at = now]

\* delete_file, "Update repo stats"
DeleteStats(repo, file_size, now) ==
    [repo EXCEPT !.current_size_bytes = SaturatingSub(@, file_size),
                 !.file_count = SaturatingSub(@, 1),
                 !.updated_at = now]

\* the order of the steps of delete_file after the lookup
DeleteNext(pc) ==
    CASE pc = "df_lookup" -> "df_wal"
      [] pc = "df_wal" -> "df_remove"
      [] pc = "df_remove" -> "df_stats"
      [] pc = "df_stats" -> "df_disk"
      [] OTHER -> "df_return"

delete_file(w, f) ==
    LET r == f.repo
        p == f.dpath
    IN
    CASE f.pc = "df_repo" ->
            IF ~Has(w.repos, r) THEN DfReturn(w, f, "not_found")
            ELSE To(w, f, "df_lookup")
      [] f.pc = "df_lookup" ->
            IF ~HasFile(w, r, p) THEN DfReturn(w, f, "not_found")
            ELSE One(w, [f EXCEPT !.file_size = w.files[r][p].size_bytes,
                                  !.pc = DeleteNext("df_lookup")])
      [] f.pc = "df_wal" ->
            One([w EXCEPT !.wal = Append(@, FileDeleted(r, p))],
                [f EXCEPT !.pc = DeleteNext("df_wal"),
                          !.trace = Ev(f, "wal", "FileDeleted", p)])
      [] f.pc = "df_remove" ->
            One(IF Has(w.files, r)
                THEN [w EXCEPT !.files = Put(@, r, Drop(@[r], p))]
                ELSE w,
                [f EXCEPT !.pc = DeleteNext("df_remove"),
                          !.trace = Ev(f, "cat", "FileDeleted", p)])
      [] f.pc = "df_stats" ->
            IF WriteBlocked(w, r) THEN {}
            ELSE One(IF Has(w.repos, r)
                     THEN [w EXCEPT !.repos =
                              Put(@, r, DeleteStats(@[r], f.file_size, w.clock))]
                     ELSE w,
                     [f EXCEPT !.pc = DeleteNext("df_stats"),
                               !.trace = Ev(f, "cat", "FileDeleted", p)])
      [] f.pc = "df_disk" ->
            IF ~FsExists(w.disk, r, p) THEN DfReturn(w, f, "ok")
            ELSE LET rm == FsRemoveFile(w.disk, r, p) IN
                 IF ~rm.ok THEN DfReturn(w, f, "internal")
                 ELSE DfReturn([w EXCEPT !.disk = cleanup_empty_dirs(rm.dk, r, p)],
                               [f EXCEPT !.trace = Ev(f, "bytes", "FileDeleted", p)],
                               "ok")

-----------------------------------------------------------------------------
(* eviction_service::evict_bytes(state, f.repo, f.needed) and             *)
(* evict_continue; returns to f.eret with f.freed                          *)

EvReturn(w, f, res) == One(w, [f EXCEPT !.pc = f.eret, !.eres = res])

RECURSIVE Perms(_)
Perms(S) ==
    IF S = {} THEN {<< >>}
    ELSE UNION {{<<x>> \o t : t \in Perms(S \ {x})} : x \in S}

\* score = access_count / max(1, age in seconds); a before b when lower
Age(meta, now) == IF now - meta.created_at > 1 THEN now - meta.created_at ELSE 1
ScoreLess(a, b, now) == a.access_count * Age(b, now) < b.access_count * Age(a, now)

\* a candidate list that is not sorted by score
ScoredUnsorted(m, now) ==
    {[i \in 1..Len(s) |-> [path |-> s[i], size |-> m[s[i]].size_bytes]] :
        s \in Perms(DOMAIN m)}

\* the scored list: the files in an order the sort can leave them in (the
\* sort is stable over the map's iteration order, which is arbitrary)
Scored(m, now) ==
    {[i \in 1..Len(s) |-> [path |-> s[i], size |-> m[s[i]].size_bytes]] :
        s \in {t \in Perms(DOMAIN m) :
                 \A i, j \in 1..Len(t) : i < j => ~ScoreLess(m[t[j]], m[t[i]], now)}}

evict_bytes(w, f) ==
    LET r == f.repo IN
    CASE f.pc = "ev_score" ->
            IF ~Has(w.files, r) THEN EvReturn(w, [f EXCEPT !.freed = 0], "ok")
            ELSE UNION {
                   IF sc = << >> \/ ~ULt(0, f.needed)
                   THEN EvReturn(w, [f EXCEPT !.freed = 0, !.scored = sc], "ok")
                   ELSE One(w, [f EXCEPT !.freed = 0, !.scored = sc, !.idx = 1,
                                         !.dpath = sc[1].path, !.dret = "ev_first",
                                         !.pc = "df_repo"])
                   : sc \in Scored(w.files[r], w.clock)}
      [] f.pc = "ev_first" ->
            IF f.dres # "ok" THEN EvReturn(w, f, f.dres)
            ELSE LET g == [f EXCEPT !.freed = @ + f.scored[1].size] IN
                 IF ~Has(w.files, r) THEN EvReturn(w, g, "ok")
                 ELSE One(w, [g EXCEPT !.idx = 2, !.pc = "ev_loop"])
      [] f.pc = "ev_loop" ->
            IF f.idx > Len(f.scored) \/ ~ULt(f.freed, f.needed) \/ ~Has(w.files, r)
            THEN EvReturn(w, f, "ok")
            ELSE IF ~Has(w.files[r], f.scored[f.idx].path)
            THEN One(w, [f EXCEPT !.idx = @ + 1])
            ELSE One(w, [f EXCEPT !.dpath = f.scored[f.idx].path, !.dret = "ev_next",
                                  !.pc = "df_repo"])
      [] f.pc = "ev_next" ->
            IF f.dres # "ok" THEN EvReturn(w, f, f.dres)
            ELSE One(w, [f EXCEPT !.freed = @ + f.scored[f.idx].size, !.idx = @ + 1,
                                  !.pc = "ev_loop"])

-----------------------------------------------------------------------------
(* file_service::upload_file(state, f.repo, f.path, f.data, f.ttl)         *)

max_upload_size == 2

\* the two build profiles at an arithmetic overflow: panic or wrap
Checked(overflows, val) ==
    IF overflows THEN {[panic |-> TRUE, v |-> 0], [panic |-> FALSE, v |-> val]}
    ELSE {[panic |-> FALSE, v |-> val]}

\* an accounting that adds the new size and forgets the replaced one
UploadNewSizeKeepsOld(current, old_size, file_size) == current + file_size

\* upload_file, "Update repo size"
UploadNewSize(current, old_size, file_size) == current - old_size + file_size
UploadNewCount(count, is_new) == IF is_new THEN count + 1 ELSE count

\* an order that indexes the file before its WAL entry is appended
UploadNextCatalogFirst(pc) ==
    CASE pc = "up_check" -> "up_write"
      [] pc = "up_write" -> "up_old"
      [] pc = "up_old" -> "up_isnew"
      [] pc = "up_isnew" -> "up_insert"
      [] pc = "up_insert" -> "up_wal"
      [] pc = "up_wal" -> "up_stats"
      [] OTHER -> "up_return"

\* an order that appends the WAL entry before the bytes are written
UploadNextWalFirst(pc) ==
    CASE pc = "up_check" -> "up_wal"
      [] pc = "up_wal" -> "up_write"
      [] pc = "up_write" -> "up_old"
      [] pc = "up_old" -> "up_isnew"
      [] pc = "up_isnew" -> "up_insert"
      [] pc = "up_insert" -> "up_stats"
      [] OTHER -> "up_return"

\* the order of the steps of upload_file after the quota check
UploadNext(pc) ==
    CASE pc = "up_check" -> "up_write"
      [] pc = "up_write" -> "up_wal"
      [] pc = "up_wal" -> "up_old"
      [] pc = "up_old" -> "up_isnew"
      [] pc = "up_isnew" -> "up_insert"
      [] pc = "up_insert" -> "up_stats"
      [] OTHER -> "up_return"

\* an upload_file that lets go of its Ref before it evicts
UploadDropsRepoRef == FALSE

\* whether upload_file keeps its Ref on the repository while it evicts
UploadHoldsRepoRef == TRUE

upload_file(w, f) ==
    LET r == f.repo
        p == f.path
        size == Len(f.data)
    IN
    CASE f.pc = "up_repo" ->
            IF ~Has(w.repos, r) THEN Finish(w, f, "not_found")
            ELSE One(w, [f EXCEPT !.default_ttl = w.repos[r].default_ttl_seconds,
                                  !.pc = "up_check"])
      [] f.pc = "up_check" ->
            IF ~Has(w.repos, r) THEN Finish(w, f, "panic")
            ELSE IF size > max_upload_size THEN Finish(w, f, "payload_too_large")
            ELSE LET repo == w.repos[r]
                     existing == IF HasFile(w, r, p) THEN w.files[r][p].size_bytes ELSE 0
                 IN UNION {
                      IF t.panic THEN Finish(w, f, "panic")
                      ELSE IF UGt(t.v, repo.max_size_bytes)
                      THEN One(IF UploadHoldsRepoRef
                               THEN [w EXCEPT !.guards[r] = @ \cup {f.id}]
                               ELSE w,
                               [f EXCEPT !.needed = t.v - repo.max_size_bytes,
                                         !.eret = "up_evicted", !.pc = "ev_score"])
                      ELSE To(w, f, UploadNext("up_check"))
                      : t \in Checked(SubAddOverflows(repo.current_size_bytes,
                                                      existing, size),
                                      repo.current_size_bytes - existing + size)}
      [] f.pc = "up_evicted" ->
            IF f.eres # "ok" THEN Finish(w, f, f.eres)
            ELSE IF ULt(f.freed, f.needed) THEN Finish(w, f, "payload_too_large")
            ELSE To(Release(w, f.id), f, UploadNext("up_check"))
      [] f.pc = "up_write" ->
            LET now == w.clock
                ttl == IF f.ttl.some THEN f.ttl ELSE f.default_ttl
                mk == CreateDirAll(w.disk, r, Parent(p))
                wr == IF mk.ok THEN FsWrite(mk.dk, r, p, f.data) ELSE mk
            IN IF ~wr.ok THEN Finish([w EXCEPT !.disk = wr.dk], f, "internal")
               ELSE One([w EXCEPT !.disk = wr.dk],
                        [f EXCEPT !.now = now,
                                  !.expires_at = IF ttl.some THEN Some(now + ttl.v)
                                                 ELSE None,
                                  !.trace = Ev(f, "bytes", "FileCreated", p),
                                  !.pc = UploadNext("up_write")])
      [] f.pc = "up_wal" ->
            One([w EXCEPT !.wal = Append(@, FileCreated(r, p, size, Sha256Hex(f.data),
                                                        f.now, f.expires_at))],
                [f EXCEPT !.trace = Ev(f, "wal", "FileCreated", p),
                          !.pc = UploadNext("up_wal")])
      [] f.pc = "up_old" ->
            One(w, [f EXCEPT !.old_size = IF HasFile(w, r, p)
                                          THEN w.files[r][p].size_bytes ELSE 0,
                             !.pc = UploadNext("up_old")])
      [] f.pc = "up_isnew" ->
            One(w, [f EXCEPT !.is_new = ~HasFile(w, r, p),
                             !.pc = UploadNext("up_isnew")])
      [] f.pc = "up_insert" ->
            One([w EXCEPT !.files =
                    Put(@, r, Put(RepoFiles(w, r), p,
                                  FileMeta(size, Sha256Hex(f.data), f.now,
                                           f.expires_at)))],
                [f EXCEPT !.trace = Ev(f, "cat", "FileCreated", p),
                          !.pc = UploadNext("up_insert")])
      [] f.pc = "up_stats" ->
            IF WriteBlocked(w, r) THEN {}
            ELSE IF ~Has(w.repos, r) THEN Finish(w, f, "ok")
            ELSE LET repo == w.repos[r] IN
                 UNION {
                   IF t.panic THEN Finish(w, f, "panic")
                   ELSE Finish([w EXCEPT !.repos = Put(@, r,
                                   [repo EXCEPT
                                      !.current_size_bytes = t.v,
                                      !.file_count = UploadNewCount(@, f.is_new),
                                      !.updated_at = f.now])],
                               [f EXCEPT !.trace = Ev(f, "cat", "FileCreated", p)],
                               "ok")
                   : t \in Checked(SubAddOverflows(repo.current_size_bytes,
                                                   f.old_size, size),
                                   UploadNewSize(repo.current_size_bytes,
                                                 f.old_size, size))}

-----------------------------------------------------------------------------
(* file_service: download_file, head_file, list_files, move_file, copy_file *)

download_file(w, f) ==
    LET r == f.repo
        p == f.path
    IN
    CASE f.pc = "dl_repo" ->
            IF ~Has(w.repos, r) THEN Finish(w, f, "not_found")
            ELSE To(w, f, "dl_lookup")
      [] f.pc = "dl_lookup" ->
            IF ~HasFile(w, r, p) THEN Finish(w, f, "not_found")
            ELSE One(w, [f EXCEPT !.meta = w.files[r][p], !.pc = "dl_touch"])
      [] f.pc = "dl_touch" ->
            One(IF HasFile(w, r, p)
                THEN [w EXCEPT !.files =
                        Put(@, r, Put(@[r], p,
                            [@[r][p] EXCEPT !.last_accessed_at = w.clock,
                                            !.access_count = @ + 1]))]
                ELSE w,
                [f EXCEPT !.pc = "dl_exists"])
      [] f.pc = "dl_exists" ->
            IF ~FsExists(w.disk, r, p) THEN Finish(w, f, "not_found_on_disk")
            ELSE Finish(w, f, "ok")

head_file(w, f) ==
    CASE f.pc = "hf_repo" ->
            IF ~Has(w.repos, f.repo) THEN Finish(w, f, "not_found")
            ELSE To(w, f, "hf_lookup")
      [] f.pc = "hf_lookup" ->
            IF ~HasFile(w, f.repo, f.path) THEN Finish(w, f, "not_found")
            ELSE Finish(w, [f EXCEPT !.meta = w.files[f.repo][f.path]], "ok")

list_files(w, f) ==
    CASE f.pc = "ls_repo" ->
            IF ~Has(w.repos, f.repo) THEN Finish(w, f, "not_found")
            ELSE To(w, f, "ls_files")
      [] f.pc = "ls_files" ->
            IF ~Has(w.files, f.repo) THEN Finish(w, f, "not_found")
            ELSE Finish(w, f, "ok")

\* an order that leaves the source indexed
MoveNextKeepsSource(pc) ==
    CASE pc = "mv_dst" -> "mv_wal"
      [] pc = "mv_wal" -> "mv_disk"
      [] pc = "mv_disk" -> "mv_insert"
      [] pc = "mv_insert" -> "mv_cleanup"
      [] OTHER -> "mv_return"

\* the order of the steps of move_file after the destination check
MoveNext(pc) ==
    CASE pc = "mv_dst" -> "mv_wal"
      [] pc = "mv_wal" -> "mv_disk"
      [] pc = "mv_disk" -> "mv_remove"
      [] pc = "mv_remove" -> "mv_insert"
      [] pc = "mv_insert" -> "mv_cleanup"
      [] OTHER -> "mv_return"

move_file(w, f) ==
    LET r == f.repo
        src == f.path
        dst == f.dst
    IN
    CASE f.pc = "mv_repo" ->
            IF ~Has(w.repos, r) THEN Finish(w, f, "not_found")
            ELSE One(w, [f EXCEPT !.now = w.clock, !.pc = "mv_src"])
      [] f.pc = "mv_src" ->
            IF ~HasFile(w, r, src) THEN Finish(w, f, "not_found")
            ELSE One(w, [f EXCEPT !.meta = w.files[r][src], !.pc = "mv_dst"])
      [] f.pc = "mv_dst" ->
            IF HasFile(w, r, dst) THEN Finish(w, f, "conflict")
            ELSE To(w, f, MoveNext("mv_dst"))
      [] f.pc = "mv_wal" ->
            One([w EXCEPT !.wal = Append(@, FileMoved(r, src, dst, f.now))],
                [f EXCEPT !.trace = Ev(f, "wal", "FileMoved", dst),
                          !.pc = MoveNext("mv_wal")])
      [] f.pc = "mv_disk" ->
            LET mk == CreateDirAll(w.disk, r, Parent(dst))
                mv == IF mk.ok THEN FsRename(mk.dk, r, src, dst) ELSE mk
            IN IF ~mv.ok THEN Finish([w EXCEPT !.disk = mv.dk], f, "internal")
               ELSE One([w EXCEPT !.disk = mv.dk],
                        [f EXCEPT !.trace = Ev(f, "bytes", "FileMoved", dst),
                                  !.pc = MoveNext("mv_disk")])
      [] f.pc = "mv_remove" ->
            One(IF Has(w.files, r)
                THEN [w EXCEPT !.files = Put(@, r, Drop(@[r], src))]
                ELSE w,
                [f EXCEPT !.trace = Ev(f, "cat", "FileMoved", dst),
                          !.pc = MoveNext("mv_remove")])
      [] f.pc = "mv_insert" ->
            One([w EXCEPT !.files =
                    Put(@, r, Put(RepoFiles(w, r), dst,
                                  [f.meta EXCEPT !.updated_at = f.now]))],
                [f EXCEPT !.trace = Ev(f, "cat", "FileMoved", dst),
                          !.pc = MoveNext("mv_insert")])
      [] f.pc = "mv_cleanup" ->
            Finish([w EXCEPT !.disk = cleanup_empty_dirs(@, r, src)], f, "ok")

\* an order that counts the copy and leaves it out of the index
CopyNextNoRecord(pc) ==
    CASE pc = "cp_size" -> "cp_disk"
      [] pc = "cp_disk" -> "cp_wal"
      [] pc = "cp_wal" -> "cp_stats"
      [] OTHER -> "cp_return"

\* the order of the steps of copy_file after the size check
CopyNext(pc) ==
    CASE pc = "cp_size" -> "cp_disk"
      [] pc = "cp_disk" -> "cp_wal"
      [] pc = "cp_wal" -> "cp_insert"
      [] pc = "cp_insert" -> "cp_stats"
      [] OTHER -> "cp_return"

copy_file(w, f) ==
    LET r == f.repo
        src == f.path
        dst == f.dst
    IN
    CASE f.pc = "cp_repo" ->
            IF ~Has(w.repos, r) THEN Finish(w, f, "not_found")
            ELSE One(w, [f EXCEPT !.now = w.clock, !.pc = "cp_src"])
      [] f.pc = "cp_src" ->
            IF ~HasFile(w, r, src) THEN Finish(w, f, "not_found")
            ELSE One(w, [f EXCEPT !.meta = w.files[r][src], !.pc = "cp_dst"])
      [] f.pc = "cp_dst" ->
            IF HasFile(w, r, dst) THEN Finish(w, f, "conflict")
            ELSE To(w, f, "cp_size")
      [] f.pc = "cp_size" ->
            IF ~Has(w.repos, r) THEN Finish(w, f, "panic")
            ELSE LET repo == w.repos[r] IN
                 UNION {
                   IF t.panic THEN Finish(w, f, "panic")
                   ELSE IF UGt(t.v, repo.max_size_bytes)
                   THEN Finish(w, f, "payload_too_large")
                   ELSE To(w, f, CopyNext("cp_size"))
                   : t \in Checked(AddOverflows(repo.current_size_bytes,
                                                f.meta.size_bytes),
                                   repo.current_size_bytes + f.meta.size_bytes)}
      [] f.pc = "cp_disk" ->
            LET mk == CreateDirAll(w.disk, r, Parent(dst))
                cp == IF mk.ok THEN FsCopy(mk.dk, r, src, dst) ELSE mk
            IN IF ~cp.ok THEN Finish([w EXCEPT !.disk = cp.dk], f, "internal")
               ELSE One([w EXCEPT !.disk = cp.dk],
                        [f EXCEPT !.trace = Ev(f, "bytes", "FileCreated", dst),
                                  !.pc = CopyNext("cp_disk")])
      [] f.pc = "cp_wal" ->
            One([w EXCEPT !.wal = Append(@, FileCreated(r, dst, f.meta.size_bytes,
                                                        f.meta.etag, f.now,
                                                        f.meta.expires_at))],
                [f EXCEPT !.trace = Ev(f, "wal", "FileCreated", dst),
                          !.pc = CopyNext("cp_wal")])
      [] f.pc = "cp_insert" ->
            One([w EXCEPT !.files =
                    Put(@, r, Put(RepoFiles(w, r), dst,
                                  FileMeta(f.meta.size_bytes, f.meta.etag, f.now,
                                           f.meta.expires_at)))],
                [f EXCEPT !.trace = Ev(f, "cat", "FileCreated", dst),
                          !.pc = CopyNext("cp_insert")])
      [] f.pc = "cp_stats" ->
            IF WriteBlocked(w, r) THEN {}
            ELSE IF ~Has(w.repos, r) THEN Finish(w, f, "ok")
            ELSE LET repo == w.repos[r] IN
                 UNION {
                   IF t.panic THEN Finish(w, f, "panic")
                   ELSE Finish([w EXCEPT !.repos = Put(@, r,
                                   [repo EXCEPT !.current_size_bytes = t.v,
                                                !.file_count = @ + 1,
                                                !.updated_at = f.now])],
                               [f EXCEPT !.trace = Ev(f, "cat", "FileCreated", dst)],
                               "ok")
                   : t \in Checked(AddOverflows(repo.current_size_bytes,
                                                f.meta.size_bytes),
                                   repo.current_size_bytes + f.meta.size_bytes)}

-----------------------------------------------------------------------------
(* repo_service: create_repo, get_repo, update_repo, delete_repo           *)

\* the order of the steps of create_repo
CreateNext(pc) ==
    CASE pc = "cr_wal" -> "cr_dir"
      [] pc = "cr_dir" -> "cr_repos"
      [] pc = "cr_repos" -> "cr_files"
      [] OTHER -> "cr_return"

create_repo(w, f) ==
    LET r == f.repo IN
    CASE f.pc = "cr_wal" ->
            One([w EXCEPT !.wal = Append(@, RepoCreated(r, f.name, f.max_size, f.ttl,
                                                        w.clock))],
                [f EXCEPT !.now = w.clock,
                          !.trace = Ev(f, "wal", "RepoCreated", Root),
                          !.pc = CreateNext("cr_wal")])
      [] f.pc = "cr_dir" ->
            One([w EXCEPT !.disk = CreateDirAll(@, r, Root).dk],
                [f EXCEPT !.trace = Ev(f, "bytes", "RepoCreated", Root),
                          !.pc = CreateNext("cr_dir")])
      [] f.pc = "cr_repos" ->
            IF WriteBlocked(w, r) THEN {}
            ELSE One([w EXCEPT !.repos = Put(@, r, RepoMeta(f.name, f.max_size, f.ttl,
                                                            f.now))],
                     [f EXCEPT !.trace = Ev(f, "cat", "RepoCreated", Root),
                               !.pc = CreateNext("cr_repos")])
      [] f.pc = "cr_files" ->
            Finish([w EXCEPT !.files = Put(@, r, EmptyMap)],
                   [f EXCEPT !.trace = Ev(f, "cat", "RepoCreated", Root)], "ok")

get_repo(w, f) ==
    IF Has(w.repos, f.repo) THEN Finish(w, f, "ok") ELSE Finish(w, f, "not_found")

\* the order of the steps of update_repo
UpdateNext(pc) ==
    CASE pc = "ur_wal" -> "ur_apply"
      [] OTHER -> "ur_return"

update_repo(w, f) ==
    LET r == f.repo IN
    CASE f.pc = "ur_wal" ->
            One([w EXCEPT !.wal = Append(@, RepoUpdated(r, f.patch, w.clock))],
                [f EXCEPT !.now = w.clock,
                          !.trace = Ev(f, "wal", "RepoUpdated", Root),
                          !.pc = UpdateNext("ur_wal")])
      [] f.pc = "ur_apply" ->
            IF WriteBlocked(w, r) THEN {}
            ELSE IF ~Has(w.repos, r) THEN Finish(w, f, "not_found")
            ELSE Finish([w EXCEPT !.repos =
                            Put(@, r, ApplyPatch(@[r], RepoUpdated(r, f.patch, f.now)))],
                        [f EXCEPT !.trace = Ev(f, "cat", "RepoUpdated", Root)], "ok")

\* the order of the steps of delete_repo after the existence check
DeleteRepoNext(pc) ==
    CASE pc = "dr_check" -> "dr_wal"
      [] pc = "dr_wal" -> "dr_repos"
      [] pc = "dr_repos" -> "dr_files"
      [] pc = "dr_files" -> "dr_disk"
      [] OTHER -> "dr_return"

delete_repo(w, f) ==
    LET r == f.repo IN
    CASE f.pc = "dr_check" ->
            IF ~Has(w.repos, r) THEN Finish(w, f, "not_found")
            ELSE To(w, f, DeleteRepoNext("dr_check"))
      [] f.pc = "dr_wal" ->
            One([w EXCEPT !.wal = Append(@, RepoDeleted(r))],
                [f EXCEPT !.trace = Ev(f, "wal", "RepoDeleted", Root),
                          !.pc = DeleteRepoNext("dr_wal")])
      [] f.pc = "dr_repos" ->
            IF WriteBlocked(w, r) THEN {}
            ELSE One([w EXCEPT !.repos = Drop(@, r)],
                     [f EXCEPT !.trace = Ev(f, "cat", "RepoDeleted", Root),
                               !.pc = DeleteRepoNext("dr_repos")])
      [] f.pc = "dr_files" ->
            One([w EXCEPT !.files = Drop(@, r)],
                [f EXCEPT !.trace = Ev(f, "cat", "RepoDeleted", Root),
                          !.pc = DeleteRepoNext("dr_files")])
      [] f.pc = "dr_disk" ->
            Finish([w EXCEPT !.disk = FsRemoveDirAll(@, r)],
                   [f EXCEPT !.trace = Ev(f, "bytes", "RepoDeleted", Root)], "ok")

-----------------------------------------------------------------------------
(* Background tasks: eviction monitor, TTL reaper, snapshot writer         *)

\* eviction_service::evict_over_limit_repos
evict_over_limit_repos(w, f) ==
    CASE f.pc = "em_start" ->
            One(w, [f EXCEPT !.todo_repos = DOMAIN w.repos, !.pc = "em_next"])
      [] f.pc = "em_next" ->
            IF f.todo_repos = {} THEN Finish(w, f, "ok")
            ELSE UNION {
                   LET g == [f EXCEPT !.todo_repos = @ \ {r}, !.repo = r] IN
                   IF Has(w.repos, r)
                      /\ UGt(w.repos[r].current_size_bytes, w.repos[r].max_size_bytes)
                   THEN One(w, [g EXCEPT !.needed = w.repos[r].current_size_bytes
                                                    - w.repos[r].max_size_bytes,
                                         !.eret = "em_ret", !.pc = "ev_score"])
                   ELSE One(w, g)
                   : r \in f.todo_repos}
      [] f.pc = "em_ret" -> To(w, f, "em_next")

\* the paths ttl_reaper::run collects for one repository
ExpiredPaths(m, now) ==
    {p \in DOMAIN m : m[p].expires_at.some /\ m[p].expires_at.v <= now}

\* one sweep of ttl_reaper::run
ttl_reaper(w, f) ==
    CASE f.pc = "tr_start" ->
            One(w, [f EXCEPT !.now = w.clock, !.todo_repos = DOMAIN w.repos,
                             !.expired = 0, !.pc = "tr_repo"])
      [] f.pc = "tr_repo" ->
            IF f.todo_repos = {} THEN Finish(w, f, "ok")
            ELSE UNION {
                   One(w, [f EXCEPT !.todo_repos = @ \ {r}, !.repo = r,
                                    !.todo_paths = ExpiredPaths(RepoFiles(w, r), f.now),
                                    !.pc = "tr_file"])
                   : r \in f.todo_repos}
      [] f.pc = "tr_file" ->
            IF f.todo_paths = {} THEN To(w, f, "tr_repo")
            ELSE UNION {
                   One(w, [f EXCEPT !.todo_paths = @ \ {p}, !.dpath = p,
                                    !.dret = "tr_ret", !.pc = "df_repo"])
                   : p \in f.todo_paths}
      [] f.pc = "tr_ret" ->
            One(w, [f EXCEPT !.expired = IF f.dres = "ok" THEN @ + 1 ELSE @,
                             !.pc = "tr_file"])

write_tmpInPlace(s, c) ==
    {[ok |-> TRUE,
      snapshot |-> [s EXCEPT !.present = TRUE, !.repos = c.repos, !.files = c.files]],
     [ok |-> FALSE,
      snapshot |-> [s EXCEPT !.present = TRUE, !.repos = c.repos, !.files = c.files,
                             !.torn = TRUE]]}

\* save_snapshot, std::fs::write(&tmp_path, &data): the staging file takes
\* the whole serialization, or the write fails and leaves a part of it
write_tmp(s, c) ==
    {[ok |-> TRUE, snapshot |-> [s EXCEPT !.tmp = "whole"]],
     [ok |-> FALSE, snapshot |-> [s EXCEPT !.tmp = "torn"]]}

\* save_snapshot, std::fs::rename(&tmp_path, path): the staging file takes
\* the place of the snapshot file in one step, or nothing changes
rename_tmp(s, c) ==
    IF s.tmp = "absent" THEN {[ok |-> FALSE, snapshot |-> s]}
    ELSE {[ok |-> TRUE,
           snapshot |-> [present |-> TRUE, repos |-> c.repos, files |-> c.files,
                         torn |-> s.tmp = "torn", tmp |-> "absent"]],
          [ok |-> FALSE, snapshot |-> s]}

\* WalWriter::truncate
truncate(entries) == << >>

SnapshotNextTruncateFirst(pc) ==
    CASE pc = "sw_repos" -> "sw_files"
      [] pc = "sw_files" -> "sw_truncate"
      [] pc = "sw_save" -> "sw_rename"
      [] OTHER -> "sw_return"

\* the order of the steps of write_snapshot
SnapshotNext(pc) ==
    CASE pc = "sw_repos" -> "sw_files"
      [] pc = "sw_files" -> "sw_save"
      [] pc = "sw_save" -> "sw_rename"
      [] pc = "sw_rename" -> "sw_truncate"
      [] OTHER -> "sw_return"

\* snapshot_writer::write_snapshot
write_snapshot(w, f) ==
    CASE f.pc = "sw_repos" ->
            One(w, [f EXCEPT !.snap_repos = w.repos, !.pc = SnapshotNext("sw_repos")])
      [] f.pc = "sw_files" ->
            One(w, [f EXCEPT !.snap_files = w.files, !.pc = SnapshotNext("sw_files")])
      [] f.pc = "sw_save" ->
            UNION {
              IF t.ok
              THEN One([w EXCEPT !.snapshot = t.snapshot],
                       [f EXCEPT !.pc = SnapshotNext("sw_save")])
              ELSE Finish([w EXCEPT !.snapshot = t.snapshot], f, "save_failed")
              : t \in write_tmp(w.snapshot,
                                [repos |-> f.snap_repos, files |-> f.snap_files])}
      [] f.pc = "sw_rename" ->
            UNION {
              IF t.ok
              THEN One([w EXCEPT !.snapshot = t.snapshot],
                       [f EXCEPT !.pc = SnapshotNext("sw_rename")])
              ELSE Finish([w EXCEPT !.snapshot = t.snapshot], f, "save_failed")
              : t \in rename_tmp(w.snapshot,
                                 [repos |-> f.snap_repos, files |-> f.snap_files])}
      [] f.pc = "sw_truncate" ->
            Finish([w EXCEPT !.wal = truncate(@)], f, "ok")

-----------------------------------------------------------------------------
(* One step of a task, and a call run to its end                           *)

DeletePcs == {"df_repo", "df_lookup", "df_wal", "df_remove", "df_stats", "df_disk"}
EvictPcs == {"ev_score", "ev_first", "ev_loop", "ev_next"}
UploadPcs == {"up_repo", "up_check", "up_evicted", "up_write", "up_wal", "up_old",
              "up_isnew", "up_insert", "up_stats"}
DownloadPcs == {"dl_repo", "dl_lookup", "dl_touch", "dl_exists"}
MovePcs == {"mv_repo", "mv_src", "mv_dst", "mv_wal", "mv_disk", "mv_remove",
            "mv_insert", "mv_cleanup"}
CopyPcs == {"cp_repo", "cp_src", "cp_dst", "cp_size", "cp_disk", "cp_wal",
            "cp_insert", "cp_stats"}

Step(w, f) ==
    CASE f.pc \in DeletePcs -> delete_file(w, f)
      [] f.pc = "df_done" -> Finish(w, f, f.dres)
      [] f.pc \in EvictPcs -> evict_bytes(w, f)
      [] f.pc \in UploadPcs -> upload_file(w, f)
      [] f.pc \in DownloadPcs -> download_file(w, f)
      [] f.pc \in {"hf_repo", "hf_lookup"} -> head_file(w, f)
      [] f.pc \in {"ls_repo", "ls_files"} -> list_files(w, f)
      [] f.pc \in MovePcs -> move_file(w, f)
      [] f.pc \in CopyPcs -> copy_file(w, f)
      [] f.pc \in {"cr_wal", "cr_dir", "cr_repos", "cr_files"} -> create_repo(w, f)
      [] f.pc = "gr_get" -> get_repo(w, f)
      [] f.pc \in {"ur_wal", "ur_apply"} -> update_repo(w, f)
      [] f.pc \in {"dr_check", "dr_wal", "dr_repos", "dr_files", "dr_disk"} ->
            delete_repo(w, f)
      [] f.pc \in {"em_start", "em_next", "em_ret"} -> evict_over_limit_repos(w, f)
      [] f.pc \in {"tr_start", "tr_repo", "tr_file", "tr_ret"} -> ttl_reaper(w, f)
      [] f.pc \in {"sw_repos", "sw_files", "sw_save", "sw_rename", "sw_truncate"} ->
            write_snapshot(w, f)
      [] OTHER -> {}

\* the outcomes of running the task alone until it returns or blocks for good
RECURSIVE Run(_, _)
Run(w, f) ==
    IF f.pc = "done" THEN One(w, f)
    ELSE LET next == Step(w, f) IN
         IF next = {} THEN One(w, f)
         ELSE UNION {Run(s.w, s.f) : s \in next}

-----------------------------------------------------------------------------
(* Requests and their inputs                                               *)

Clients == {"c1", "c2"}
Tasks == Clients \cup {"ttl", "evict", "snap"}

Names == {"n1"}
MaxSizes == {3}
CreateTtls == {None}
UploadTtls == {None, Some(1)}
\* a field of a JSON request body: left out, null, or a number
JsonAbsent == [tag |-> "absent", v |-> 0]
JsonNull == [tag |-> "null", v |-> 0]
JsonNumber(n) == [tag |-> "number", v |-> n]
\* the bodies of PATCH /repos/{id}
UpdateBodies ==
    {[max_size_bytes |-> JsonNumber(1), default_ttl_seconds |-> JsonAbsent]}
    \cup {[max_size_bytes |-> JsonAbsent, default_ttl_seconds |-> t] :
             t \in {JsonAbsent, JsonNull, JsonNumber(1)}}
\* serde's Deserialize for Option<u64>: a missing field and null give None
OptionFromJson(x) == IF x.tag = "number" THEN Some(x.v) ELSE None
\* serde's Deserialize for Option<Option<u64>>: the outer Option takes a
\* missing field and null as None, and anything else as Some(inner)
NestedOptionFromJson(x) ==
    IF x.tag = "number" THEN Some(OptionFromJson(x)) ELSE NoneOf(None)
\* Json<UpdateRepoRequest>: the derived Deserialize of UpdateRepoRequest
UpdateRepoRequest(body) ==
    [NoPatch EXCEPT
        !.max_size_bytes = OptionFromJson(body.max_size_bytes),
        !.default_ttl_seconds = NestedOptionFromJson(body.default_ttl_seconds)]
Patches == {UpdateRepoRequest(b) : b \in UpdateBodies}

Call(id, op, pc) == [IdleFrame(id) EXCEPT !.op = op, !.pc = pc]

CreateRepoCalls(id) ==
    {[Call(id, "create_repo", "cr_wal") EXCEPT
        !.repo = r, !.name = n, !.max_size = m, !.ttl = t] :
     r \in RepoIds \ used_ids, n \in Names, m \in MaxSizes, t \in CreateTtls}
GetRepoCalls(id) ==
    {[Call(id, "get_repo", "gr_get") EXCEPT !.repo = r] : r \in RepoIds}
UpdateRepoCalls(id) ==
    {[Call(id, "update_repo", "ur_wal") EXCEPT !.repo = r, !.patch = u] :
     r \in RepoIds, u \in Patches}
DeleteRepoCalls(id) ==
    {[Call(id, "delete_repo", "dr_check") EXCEPT !.repo = r] : r \in RepoIds}
UploadCalls(id) ==
    {[Call(id, "upload", "up_repo") EXCEPT
        !.repo = r, !.path = p, !.data = d, !.ttl = t] :
     r \in RepoIds, p \in Paths, d \in Bodies, t \in UploadTtls}
DownloadCalls(id) ==
    {[Call(id, "download", "dl_repo") EXCEPT !.repo = r, !.path = p] :
     r \in RepoIds, p \in Paths}
HeadCalls(id) ==
    {[Call(id, "head", "hf_repo") EXCEPT !.repo = r, !.path = p] :
     r \in RepoIds, p \in Paths}
ListCalls(id) ==
    {[Call(id, "list", "ls_repo") EXCEPT !.repo = r] : r \in RepoIds}
DeleteCalls(id) ==
    {[Call(id, "delete", "df_repo") EXCEPT
        !.repo = r, !.path = p, !.dpath = p, !.dret = "df_done"] :
     r \in RepoIds, p \in Paths}
MoveCalls(id) ==
    {[Call(id, "move", "mv_repo") EXCEPT !.repo = r, !.path = p, !.dst = q] :
     r \in RepoIds, p \in Paths, q \in Paths}
CopyCalls(id) ==
    {[Call(id, "copy", "cp_repo") EXCEPT !.repo = r, !.path = p, !.dst = q] :
     r \in RepoIds, p \in Paths, q \in Paths}

-----------------------------------------------------------------------------
(* Actions                                                                 *)

World == [repos |-> repos, files |-> files, wal |-> wal, snapshot |-> snapshot,
          disk |-> disk, guards |-> guards, clock |-> clock]

\* the WAL file's bytes, the path validator's inputs and outputs, the shell
\* service: what the catalog's handlers never touch
aside == <<wal_file, path_io, shell, main>>
NoRead == [done |-> FALSE, ok |-> FALSE, entries |-> << >>]
\* bytes: current.wal; whole: the entries whose append returned before the
\* first restart; later: those whose append returned after it; read, reread:
\* what read_entries returned at the first and at the second restart
NoWalFile ==
    [bytes |-> << >>, whole |-> << >>, tail |-> "none", read |-> NoRead,
     later |-> << >>, reread |-> NoRead]
NoResult == [done |-> FALSE, ok |-> FALSE, err |-> "none", val |-> << >>]
NoPathIo == [input |-> << >>, once |-> NoResult, twice |-> NoResult]
\* config.max_concurrent_commands (MAX_CONCURRENT_COMMANDS)
max_concurrent_commands == 1
IdleExec ==
    [pc |-> "idle", repo |-> "none", command |-> "none", args |-> << >>,
     holds |-> FALSE, acquired |-> FALSE, spawned |-> FALSE, result |-> "none"]
\* AppState::new: every permit is available, no request, no process
NoShell ==
    [permits |-> max_concurrent_commands, reqs |-> [c \in Clients |-> IdleExec],
     running |-> [c \in Clients |-> 0], started |-> 0]
\* the tasks main() spawns before it serves
Background == {"ttl", "evict", "snap"}
\* main() at axum::serve: no signal yet, each background task in its select!
NoMain ==
    [pc |-> "serving", signalled |-> FALSE,
     task |-> [t \in Background |-> "waiting"],
     wakes |-> 0, late |-> [t \in Background |-> 0]]
AsideIdle ==
    wal_file = NoWalFile /\ path_io = NoPathIo /\ shell = NoShell /\ main = NoMain

Install(w) ==
    /\ repos' = w.repos
    /\ files' = w.files
    /\ wal' = w.wal
    /\ snapshot' = w.snapshot
    /\ disk' = w.disk
    /\ guards' = w.guards
    /\ clock' = w.clock
    /\ UNCHANGED aside

InFlight(t) == procs[t].pc \notin {"idle", "done"}
Quiescent == \A t \in Tasks : ~InFlight(t)

\* a call that overlaps no other: it runs from its first step to its return
Atomic(f0) ==
    /\ \A t \in Tasks \ {"snap"} : ~InFlight(t)
    /\ ~InFlight(f0.id)
    /\ nops < MaxOps
    /\ \E s \in Run(World, f0) :
          /\ Install(s.w)
          /\ procs' = [t \in Tasks |->
                          IF t = f0.id THEN s.f
                          ELSE IF InFlight(t) THEN procs[t] ELSE IdleFrame(t)]
    /\ nops' = nops + 1

CreateRepo ==
    \E f0 \in CreateRepoCalls("c1") : Atomic(f0) /\ used_ids' = used_ids \cup {f0.repo}
GetRepo == \E f0 \in GetRepoCalls("c1") : Atomic(f0) /\ UNCHANGED used_ids
UpdateRepo == \E f0 \in UpdateRepoCalls("c1") : Atomic(f0) /\ UNCHANGED used_ids
DeleteRepo == \E f0 \in DeleteRepoCalls("c1") : Atomic(f0) /\ UNCHANGED used_ids
UploadFile == \E f0 \in UploadCalls("c1") : Atomic(f0) /\ UNCHANGED used_ids
DownloadFile == \E f0 \in DownloadCalls("c1") : Atomic(f0) /\ UNCHANGED used_ids
HeadFile == \E f0 \in HeadCalls("c1") : Atomic(f0) /\ UNCHANGED used_ids
ListFiles == \E f0 \in ListCalls("c1") : Atomic(f0) /\ UNCHANGED used_ids
DeleteFile == \E f0 \in DeleteCalls("c1") : Atomic(f0) /\ UNCHANGED used_ids
MoveFile == \E f0 \in MoveCalls("c1") : Atomic(f0) /\ UNCHANGED used_ids
CopyFile == \E f0 \in CopyCalls("c1") : Atomic(f0) /\ UNCHANGED used_ids

\* the background tasks, each tick of its timer a call
EvictionSweep == Atomic(Call("evict", "evict_sweep", "em_start")) /\ UNCHANGED used_ids
TtlSweep == Atomic(Call("ttl", "ttl_sweep", "tr_start")) /\ UNCHANGED used_ids
Snapshot == Atomic(Call("snap", "snapshot", "sw_repos")) /\ UNCHANGED used_ids

Tick ==
    /\ clock + 1 \in Times
    /\ clock' = clock + 1
    /\ UNCHANGED <<repos, files, wal, snapshot, disk, guards, procs, used_ids, nops>>
    /\ UNCHANGED aside

\* main() up to the first request: the catalog is built from the files
Recovery ==
    LET c == Recover(snapshot, wal, disk) IN
    /\ repos' = c.repos
    /\ files' = c.files
    /\ guards' = [r \in RepoIds |-> {}]
    /\ procs' = [t \in Tasks |-> IdleFrame(t)]
    /\ UNCHANGED <<wal, snapshot, disk, clock, used_ids>>
    /\ UNCHANGED aside

\* the process is killed and started again
Restart == Recovery /\ UNCHANGED nops

Init ==
    /\ repos = EmptyMap
    /\ files = EmptyMap
    /\ wal = << >>
    /\ snapshot = NoSnapshot
    /\ disk = EmptyMap
    /\ guards = [r \in RepoIds |-> {}]
    /\ clock = 0
    /\ procs = [t \in Tasks |-> IdleFrame(t)]
    /\ used_ids = {}
    /\ nops = 0
    /\ AsideIdle

\* requests one at a time, sweeps between them
Next ==
    \/ CreateRepo
    \/ GetRepo
    \/ UpdateRepo
    \/ DeleteRepo
    \/ UploadFile
    \/ DownloadFile
    \/ HeadFile
    \/ ListFiles
    \/ DeleteFile
    \/ MoveFile
    \/ CopyFile
    \/ EvictionSweep
    \/ TtlSweep
    \/ Snapshot
    \/ Tick
    \/ Restart

Spec == Init /\ [][Next]_vars

-----------------------------------------------------------------------------
(* Overlapping requests.  axum serves every request on its own tokio task  *)
(* and the handlers take no lock across their steps, so two requests on   *)
(* one repository interleave step by step.                                 *)

RacePaths == {<<"a">>}
RaceCalls(id) ==
    {f \in UploadCalls(id) : f.path \in RacePaths /\ f.ttl = None}
    \cup {f \in UploadCalls(id) : f.path = <<"b">> /\ f.ttl = None /\ id = "c2"}
    \cup {f \in DeleteRepoCalls(id) : id = "c1"}
    \cup {f \in DeleteCalls(id) : f.path \in RacePaths}
    \cup {f \in MoveCalls(id) : f.path \in RacePaths /\ f.dst \notin RacePaths}

NoOverlapYet == \A c \in Clients : ~procs[c].stepwise

SetupCreate == nops < MaxSetup /\ NoOverlapYet /\ CreateRepo
SetupUpload == nops < MaxSetup /\ NoOverlapYet /\ UploadFile

\* a task starts a call that runs one step at a time
Start(f0) ==
    /\ ~InFlight(f0.id)
    /\ procs' = [procs EXCEPT ![f0.id] = [f0 EXCEPT !.stepwise = TRUE]]
    /\ UNCHANGED <<repos, files, wal, snapshot, disk, guards, clock, used_ids>>
    /\ UNCHANGED aside

\* a task takes its next step, unless the step is blocked
Proceed(id) ==
    /\ InFlight(id)
    /\ procs[id].stepwise
    /\ \E s \in Step(World, procs[id]) :
          /\ Install(s.w)
          /\ procs' = [procs EXCEPT ![id] = s.f]
    /\ UNCHANGED <<used_ids, nops>>

RequestBegin ==
    \E id \in Clients : \E f0 \in RaceCalls(id) :
        ~procs[id].stepwise /\ Start(f0) /\ UNCHANGED nops
RequestStep == \E id \in Clients : Proceed(id)

NextConc ==
    \/ SetupCreate
    \/ SetupUpload
    \/ RequestBegin
    \/ RequestStep

SpecConc == Init /\ [][NextConc]_vars

-----------------------------------------------------------------------------
(* The snapshot writer beside the requests.  write_snapshot runs on its   *)
(* own tokio task; requests are served between any two of its steps.       *)

SnapshotBegin ==
    /\ nops < MaxOps
    /\ Start(Call("snap", "snapshot", "sw_repos"))
    /\ nops' = nops + 1
SnapshotStep == Proceed("snap")

NextSnap ==
    \/ CreateRepo
    \/ UploadFile
    \/ DeleteFile
    \/ SnapshotBegin
    \/ SnapshotStep
    \/ Restart

SpecSnap == Init /\ [][NextSnap]_vars

-----------------------------------------------------------------------------
(* Startup after a crash.  The process starts on whatever the snapshot    *)
(* file, the WAL file and the byte store hold.                             *)

\* entries of one WAL file
MaxWalLen == 3

CrashEntries ==
    {RepoCreated("r1", "n1", 3, None, 0),
     FileCreated("r1", <<"a">>, 1, Sha256Hex(<<1>>), 0, None),
     FileCreated("r1", <<"a", "b">>, 2, Sha256Hex(<<2, 2>>), 0, None),
     FileMoved("r1", <<"a", "b">>, <<"a">>, 0),
     FileDeleted("r1", <<"a">>)}
CrashWals == UNION {[1..n -> CrashEntries] : n \in 0..MaxWalLen}

CrashSnapshots ==
    {NoSnapshot,
     [present |-> TRUE,
      repos |-> Put(EmptyMap, "r1",
                    [RepoMeta("n1", 3, None, 0) EXCEPT !.current_size_bytes = 1,
                                                       !.file_count = 1]),
      files |-> Put(EmptyMap, "r1",
                    Put(EmptyMap, <<"b">>, FileMeta(1, Sha256Hex(<<1>>), 0, None))),
      torn |-> FALSE, tmp |-> "absent"]}

\* the trees a files directory can hold
CrashTrees ==
    {t \in UNION {[S -> {DirNode} \cup {FileNode(d) : d \in Bodies}] :
                     S \in SUBSET Paths} :
        \A p \in DOMAIN t :
            Parent(p) # Root => (Parent(p) \in DOMAIN t /\ t[Parent(p)].kind = "dir")}
CrashDisks == {EmptyMap} \cup {Put(EmptyMap, "r1", t) : t \in CrashTrees}

InitCrashed ==
    /\ repos = EmptyMap
    /\ files = EmptyMap
    /\ wal \in CrashWals
    /\ snapshot \in CrashSnapshots
    /\ disk \in CrashDisks
    /\ guards = [r \in RepoIds |-> {}]
    /\ clock = 0
    /\ procs = [t \in Tasks |-> IdleFrame(t)]
    /\ used_ids = {}
    /\ nops = 0
    /\ AsideIdle

\* the first start on these files
Startup ==
    /\ nops = 0
    /\ Recovery
    /\ nops' = 1
Started == nops = 1

NextRecover == Startup

SpecRecover == InitCrashed /\ [][NextRecover]_vars

-----------------------------------------------------------------------------
(* The WAL file, byte by byte                                              *)

MaxFrames == 2

\* to_le_bytes / from_le_bytes of an integer of w bytes
RECURSIVE LeBytes(_, _)
LeBytes(n, w) == IF w = 0 THEN << >> ELSE <<n % 256>> \o LeBytes(n \div 256, w - 1)
RECURSIVE FromLe(_)
\* a value of 2^16 or more stands for every larger one: it is past the end of
\* any file and equal to no variant index here
FromLe(b) ==
    IF b = << >> THEN 0
    ELSE LET hi == FromLe(Tail(b)) IN
         IF hi >= 256 THEN 65536 ELSE b[1] + 256 * hi

\* bincode of a byte string or a String: u64 length, then the bytes
WithLen(b) == LeBytes(Len(b), 8) \o b
\* a Uuid is written as its bytes (one byte here, sixteen in the program)
UuidBytes(id) == IF id = "r1" THEN <<1>> ELSE <<0>>
\* a path's UTF-8 bytes: the segments' letters with '/' between them
RECURSIVE StrBytes(_)
StrBytes(p) ==
    IF p = << >> THEN << >>
    ELSE (IF p[1] = "a" THEN <<97>> ELSE <<98>>)
         \o (IF Len(p) = 1 THEN << >> ELSE <<47>> \o StrBytes(Tail(p)))

\* bincode::serialize of the entries this file holds: u32 variant index,
\* then the fields in declaration order
serialize(e) ==
    IF e.type = "RepoDeleted" THEN LeBytes(2, 4) \o WithLen(UuidBytes(e.id))
    ELSE LeBytes(5, 4) \o WithLen(UuidBytes(e.repo_id)) \o WithLen(StrBytes(e.path))

\* reads one length-prefixed field off the front of b
TakeField(b) ==
    IF Len(b) < 8 THEN [ok |-> FALSE, val |-> << >>, rest |-> << >>]
    ELSE LET n == FromLe(SubSeq(b, 1, 8)) IN
         IF Len(b) < 8 + n THEN [ok |-> FALSE, val |-> << >>, rest |-> << >>]
         ELSE [ok |-> TRUE, val |-> SubSeq(b, 9, 8 + n),
               rest |-> SubSeq(b, 9 + n, Len(b))]

WalIds == {"r1"}
WalPaths == {<<"a">>, <<"a", "b">>}
DecodeErr == [ok |-> FALSE, entry |-> RepoDeleted("r1")]
DecodeOk(e) == [ok |-> TRUE, entry |-> e]

\* a deserializer that takes every variant index for RepoDeleted
deserializeAnyVariant(b) ==
    IF Len(b) < 4 THEN DecodeErr
    ELSE LET id == TakeField(SubSeq(b, 5, Len(b))) IN
         IF id.ok /\ \E r \in WalIds : UuidBytes(r) = id.val
         THEN DecodeOk(RepoDeleted(CHOOSE r \in WalIds : UuidBytes(r) = id.val))
         ELSE DecodeOk(RepoDeleted("r1"))

\* bincode::deserialize::<WalEntry>: fails on an unknown variant index and on
\* input that ends inside a field; bytes left over are not an error
deserialize(b) ==
    IF Len(b) < 4 THEN DecodeErr
    ELSE LET tag == FromLe(SubSeq(b, 1, 4))
             id == TakeField(SubSeq(b, 5, Len(b)))
             path == TakeField(id.rest)
         IN  IF tag \notin {2, 5} THEN DecodeErr
             ELSE IF ~id.ok \/ ~\E r \in WalIds : UuidBytes(r) = id.val THEN DecodeErr
             ELSE LET r == CHOOSE x \in WalIds : UuidBytes(x) = id.val IN
                  IF tag = 2 THEN DecodeOk(RepoDeleted(r))
                  ELSE IF ~path.ok \/ ~\E p \in WalPaths : StrBytes(p) = path.val
                       THEN DecodeErr
                  ELSE DecodeOk(FileDeleted(r,
                           CHOOSE p \in WalPaths : StrBytes(p) = path.val))

\* what WalWriter::append writes for one entry
Frame(e) == LeBytes(Len(serialize(e)), 4) \o serialize(e)

\* WalWriter::read_entries from the cursor on
RECURSIVE ReadFrom(_, _, _)
ReadFrom(data, cursor, entries) ==
    IF ~(cursor + 4 <= Len(data)) THEN entries
    ELSE LET len == FromLe(SubSeq(data, cursor + 1, cursor + 4))
             at == cursor + 4
         IN  IF at + len > Len(data) THEN entries
             ELSE LET d == deserialize(SubSeq(data, at + 1, at + len)) IN
                  IF ~d.ok THEN entries
                  ELSE ReadFrom(data, at + len, Append(entries, d.entry))
read_entries(data) == [done |-> TRUE, ok |-> TRUE, entries |-> ReadFrom(data, 0, << >>)]

WalEntries ==
    {RepoDeleted(r) : r \in WalIds}
    \cup {FileDeleted(r, p) : r \in WalIds, p \in WalPaths}
\* payloads that are framed whole but are no WalEntry: an unknown variant,
\* an entry cut inside its fields, no bytes at all
CorruptPayloads ==
    {LeBytes(9, 4) \o WithLen(UuidBytes("r1")),
     LeBytes(5, 4) \o WithLen(UuidBytes("r1")),
     << >>}

\* append returns: the whole frame is in the file
WalAppend ==
    /\ wal_file.tail = "none" /\ ~wal_file.read.done
    /\ Len(wal_file.whole) < MaxFrames
    /\ \E e \in WalEntries :
          wal_file' = [wal_file EXCEPT !.bytes = @ \o Frame(e),
                                       !.whole = Append(@, e)]
    /\ UNCHANGED <<repos, files, wal, snapshot, disk, guards, clock, procs,
                   used_ids, nops, path_io, shell, main>>

\* the process dies inside append: a proper prefix of the frame is written
WalTear ==
    /\ wal_file.tail = "none" /\ ~wal_file.read.done
    /\ \E e \in WalEntries : \E k \in 1..(Len(Frame(e)) - 1) :
          wal_file' = [wal_file EXCEPT !.bytes = @ \o SubSeq(Frame(e), 1, k),
                                       !.tail = IF k < 4 THEN "short_prefix"
                                                ELSE "short_payload"]
    /\ UNCHANGED <<repos, files, wal, snapshot, disk, guards, clock, procs,
                   used_ids, nops, path_io, shell, main>>

\* the last frame's payload is damaged
WalCorrupt ==
    /\ wal_file.tail = "none" /\ ~wal_file.read.done
    /\ \E b \in CorruptPayloads :
          wal_file' = [wal_file EXCEPT !.bytes = @ \o LeBytes(Len(b), 4) \o b,
                                       !.tail = "corrupt"]
    /\ UNCHANGED <<repos, files, wal, snapshot, disk, guards, clock, procs,
                   used_ids, nops, path_io, shell, main>>

\* startup reads the file
WalRead ==
    /\ ~wal_file.read.done
    /\ wal_file' = [wal_file EXCEPT !.read = read_entries(wal_file.bytes)]
    /\ UNCHANGED <<repos, files, wal, snapshot, disk, guards, clock, procs,
                   used_ids, nops, path_io, shell, main>>

NextWal == WalAppend \/ WalTear \/ WalCorrupt \/ WalRead

SpecWal == Init /\ [][NextWal]_vars

-----------------------------------------------------------------------------
(* sandbox::path_validator, on a Unix build: a string is a sequence of     *)
(* characters                                                              *)

MaxPathLen == 4

Slash == "/"
BackSlash == "\\"
Nul == "NUL"
PathChars == {"a", ".", Slash, BackSlash, Nul}
PathInputs == UNION {[1..n -> PathChars] : n \in 0..MaxPathLen}

\* str::split on one character: the pieces between its occurrences
RECURSIVE SplitOn(_, _)
SplitOn(s, sep) ==
    IF \A i \in 1..Len(s) : s[i] # sep THEN <<s>>
    ELSE LET k == CHOOSE i \in 1..Len(s) :
                      s[i] = sep /\ \A j \in 1..(i - 1) : s[j] # sep
         IN <<SubSeq(s, 1, k - 1)>> \o SplitOn(SubSeq(s, k + 1, Len(s)), sep)

\* a classification that takes ".." for "."
ComponentOfParentAsCur(seg, leading) ==
    IF seg = << >> THEN "none"
    ELSE IF seg = <<".">> \/ seg = <<".", ".">>
    THEN (IF leading THEN "CurDir" ELSE "none")
    ELSE "Normal"

\* the std::path::Component a piece between separators yields: nothing for
\* an empty piece and for a "." that is not the leading piece
ComponentOf(seg, leading) ==
    IF seg = << >> THEN "none"
    ELSE IF seg = <<".">> THEN (IF leading THEN "CurDir" ELSE "none")
    ELSE IF seg = <<".", ".">> THEN "ParentDir"
    ELSE "Normal"

\* Path::components: '/' is the only separator
components(s) ==
    LET has_root == s # << >> /\ s[1] = Slash
        segs == SplitOn(s, Slash)
        all == [i \in 1..Len(segs) |->
                   [kind |-> ComponentOf(segs[i], i = 1 /\ ~has_root), s |-> segs[i]]]
    IN  (IF has_root THEN <<[kind |-> "RootDir", s |-> <<Slash>>]>> ELSE << >>)
        \o SelectSeq(all, LAMBDA c : c.kind # "none")

\* PathBuf::from_iter and to_string_lossy: the components joined by '/'
RECURSIVE JoinPath(_)
JoinPath(cs) ==
    IF cs = << >> THEN << >>
    ELSE cs[1].s \o (IF Len(cs) = 1 THEN << >> ELSE <<Slash>> \o JoinPath(Tail(cs)))

\* str::replace('\\', "/")
ReplaceBackslash(s) == [i \in 1..Len(s) |-> IF s[i] = BackSlash THEN Slash ELSE s[i]]

PathErr(e) == [done |-> TRUE, ok |-> FALSE, err |-> e, val |-> << >>]
PathOk(s) == [done |-> TRUE, ok |-> TRUE, err |-> "none", val |-> s]

\* the loop over the components: the first one that is refused
RECURSIVE FirstRefusal(_)
FirstRefusal(cs) ==
    IF cs = << >> THEN "none"
    ELSE IF cs[1].kind = "ParentDir" THEN "forbidden"
    ELSE IF cs[1].kind = "Normal" /\ \E i \in 1..Len(cs[1].s) : cs[1].s[i] = Nul
    THEN "bad_request"
    ELSE FirstRefusal(Tail(cs))

validate_relative_path(rel_path) ==
    IF rel_path = << >> THEN PathErr("bad_request")
    ELSE IF FirstRefusal(components(rel_path)) # "none"
    THEN PathErr(FirstRefusal(components(rel_path)))
    ELSE LET result == JoinPath(SelectSeq(components(rel_path),
                                          LAMBDA c : c.kind = "Normal"))
         IN  IF result = << >> THEN PathErr("bad_request")
             ELSE PathOk(ReplaceBackslash(result))

\* a request's path reaches the validator
Validate ==
    /\ ~path_io.once.done
    /\ path_io' = [path_io EXCEPT !.once = validate_relative_path(path_io.input)]
    /\ UNCHANGED <<repos, files, wal, snapshot, disk, guards, clock, procs,
                   used_ids, nops, wal_file, shell, main>>

\* a path the validator returned is given to it again
Revalidate ==
    /\ path_io.once.done /\ path_io.once.ok
    /\ ~path_io.twice.done
    /\ path_io' = [path_io EXCEPT !.twice = validate_relative_path(path_io.once.val)]
    /\ UNCHANGED <<repos, files, wal, snapshot, disk, guards, clock, procs,
                   used_ids, nops, wal_file, shell, main>>

InitPath ==
    /\ repos = EmptyMap
    /\ files = EmptyMap
    /\ wal = << >>
    /\ snapshot = NoSnapshot
    /\ disk = EmptyMap
    /\ guards = [r \in RepoIds |-> {}]
    /\ clock = 0
    /\ procs = [t \in Tasks |-> IdleFrame(t)]
    /\ used_ids = {}
    /\ nops = 0
    /\ wal_file = NoWalFile
    /\ shell = NoShell
    /\ main = NoMain
    /\ path_io \in {[NoPathIo EXCEPT !.input = s] : s \in PathInputs}

NextPath == Validate \/ Revalidate

SpecPath == InitPath /\ [][NextPath]_vars

-----------------------------------------------------------------------------
(* services::shell_service and sandbox: exec requests                      *)

MaxExecs == 3

\* command_whitelist::ALLOWED_COMMANDS
ALLOWED_COMMANDS ==
    {"rg", "grep", "head", "tail", "cat", "wc", "find", "ls", "sort", "uniq",
     "sed", "awk", "tr", "cut", "diff", "file", "stat", "du", "tree"}
is_allowed(command) == command \in ALLOWED_COMMANDS

\* str::contains for a string given as a sequence of characters
ContainsStr(s, sub) ==
    \E i \in 1..(Len(s) - Len(sub) + 1) : SubSeq(s, i, i + Len(sub) - 1) = sub
\* the characters validate_args searches for; backquote, newline and carriage
\* return are written by name
MetaChars == {"|", ";", "BQ", "$", "&", "LF", "CR"}
ArgRefused(arg) ==
    \/ ContainsStr(arg, <<".", ".">>)
    \/ \E ch \in MetaChars : ContainsStr(arg, <<ch>>)
    \/ ContainsStr(arg, <<"$", "(">>)

\* a check that looks at the first argument only
validate_argsFirstOnly(args) == args = << >> \/ ~ArgRefused(args[1])

\* command_whitelist::validate_args: TRUE for Ok(())
validate_args(args) == \A i \in 1..Len(args) : ~ArgRefused(args[i])

\* a semaphore that hands out permits it does not have
AcquirableAlways(permits) == TRUE

\* Semaphore::acquire returns only when a permit is available
Acquirable(permits) == permits > 0

ExecCommands == {"ls", "rm"}
ExecArgs ==
    {<< >>, <<<<"a">>>>, <<<<"a">>, <<".", ".">>>>, <<<<"a", ";">>>>,
     <<<<"a">>, <<"$", "(", "a">>>>}
ExecRepos == {"r1"}

\* an exec request and its locals
ExecFrame(repo, command, args) ==
    [pc |-> "ex_repo", repo |-> repo, command |-> command, args |-> args,
     holds |-> FALSE, acquired |-> FALSE, spawned |-> FALSE, result |-> "none"]

\* execute_command returns: _permit is dropped
ExecReturn(sh, c, res) ==
    [sh EXCEPT !.reqs[c].pc = "done",
               !.reqs[c].result = res,
               !.reqs[c].holds = FALSE,
               !.permits = IF sh.reqs[c].holds THEN @ + 1 ELSE @]

\* the steps of execute_command and run_command for task c: the set of
\* the states of the shell service after the step
execute_command(sh, c) ==
    LET f == sh.reqs[c] IN
    CASE f.pc = "ex_repo" ->
            IF ~Has(repos, f.repo) THEN {ExecReturn(sh, c, "not_found")}
            ELSE {[sh EXCEPT !.reqs[c].pc = "ex_allowed"]}
      [] f.pc = "ex_allowed" ->
            IF ~is_allowed(f.command) THEN {ExecReturn(sh, c, "forbidden")}
            ELSE {[sh EXCEPT !.reqs[c].pc = "ex_args"]}
      [] f.pc = "ex_args" ->
            IF ~validate_args(f.args) THEN {ExecReturn(sh, c, "forbidden")}
            ELSE {[sh EXCEPT !.reqs[c].pc = "ex_acquire"]}
      [] f.pc = "ex_acquire" ->
            IF ~Acquirable(sh.permits) THEN {}
            ELSE {[sh EXCEPT !.permits = @ - 1,
                             !.reqs[c].holds = TRUE,
                             !.reqs[c].acquired = TRUE,
                             !.reqs[c].pc = "ex_spawn"]}
      [] f.pc = "ex_spawn" ->
            {ExecReturn(sh, c, "internal"),
             [sh EXCEPT !.reqs[c].spawned = TRUE,
                        !.reqs[c].pc = "ex_wait",
                        !.running[c] = @ + 1]}
      [] f.pc = "ex_wait" ->
            {ExecReturn([sh EXCEPT !.running[c] = @ - 1], c, "ok"),
             ExecReturn([sh EXCEPT !.running[c] = @ - 1], c, "internal"),
             ExecReturn(sh, c, "timed_out")}
      [] OTHER -> {}

\* POST /repos/:id/exec arrives
ExecBegin ==
    /\ shell.started < MaxExecs
    /\ \E c \in Clients, r \in ExecRepos, cmd \in ExecCommands, args \in ExecArgs :
          /\ shell.reqs[c].pc \in {"idle", "done"}
          /\ shell' = [shell EXCEPT !.reqs[c] = ExecFrame(r, cmd, args),
                                    !.started = @ + 1]
    /\ UNCHANGED <<repos, files, wal, snapshot, disk, guards, clock, procs,
                   used_ids, nops, wal_file, path_io, main>>

\* a request takes its next step
ExecStep ==
    /\ \E c \in Clients : \E sh \in execute_command(shell, c) : shell' = sh
    /\ UNCHANGED <<repos, files, wal, snapshot, disk, guards, clock, procs,
                   used_ids, nops, wal_file, path_io, main>>

\* a process whose request timed out ends by itself
ChildExit ==
    /\ \E c \in Clients :
          /\ shell.running[c] > 0
          /\ shell.reqs[c].pc # "ex_wait" \/ shell.running[c] > 1
          /\ shell' = [shell EXCEPT !.running[c] = @ - 1]
    /\ UNCHANGED <<repos, files, wal, snapshot, disk, guards, clock, procs,
                   used_ids, nops, wal_file, path_io, main>>

\* the repository the requests name is created once
ExecSetup == repos = EmptyMap /\ CreateRepo

NextShell == ExecSetup \/ ExecBegin \/ ExecStep \/ ChildExit

SpecShell == Init /\ [][NextShell]_vars

-----------------------------------------------------------------------------
(* Size and count accounting                                               *)

SizeMatchesIndex ==
    \A r \in DOMAIN repos :
        repos[r].current_size_bytes = SumSizes(RepoFiles(World, r))
CountMatchesIndex ==
    \A r \in DOMAIN repos :
        repos[r].file_count = Cardinality(DOMAIN RepoFiles(World, r))

AllOverlappedDone ==
    \A c \in Clients : procs[c].stepwise /\ procs[c].pc = "done"

\* C2: once the overlapping requests on a repository have all completed,
\* current_size_bytes is the sum of size_bytes of the indexed files
C2_OverlapKeepsSize == AllOverlappedDone => SizeMatchesIndex

\* C3: whenever no call is in flight, file_count is the number of entries of
\* the file index, whatever interleaving of requests led to the state
C3_CountIsIndexSize == Quiescent => CountMatchesIndex

-----------------------------------------------------------------------------
(* Recovery                                                                *)

FilesOf(c, r) == IF Has(c.files, r) THEN c.files[r] ELSE EmptyMap
Live == [repos |-> repos, files |-> files]

\* the fields of a file record that the WAL carries
SameFile(a, b) ==
    /\ a.size_bytes = b.size_bytes
    /\ a.etag = b.etag
    /\ a.expires_at = b.expires_at

SameFiles(c, d) ==
    \A r \in DOMAIN c.repos :
        /\ DOMAIN FilesOf(c, r) = DOMAIN FilesOf(d, r)
        /\ \A p \in DOMAIN FilesOf(c, r) \cap DOMAIN FilesOf(d, r) :
              SameFile(FilesOf(c, r)[p], FilesOf(d, r)[p])

SameStats(c, d) ==
    \A r \in DOMAIN c.repos \cap DOMAIN d.repos :
        /\ c.repos[r].current_size_bytes = d.repos[r].current_size_bytes
        /\ c.repos[r].file_count = d.repos[r].file_count

\* C4: with no snapshot taken and no call in flight, a restart (load the
\* snapshot, replay the WAL, reconcile with the byte store) yields the live
\* catalog: same repositories, same paths, same size_bytes, etag and
\* expires_at per file, same current_size_bytes and file_count per repository
C4_RestartYieldsLiveCatalog ==
    (Quiescent /\ ~snapshot.present) =>
        LET c == Recover(snapshot, wal, disk) IN
        /\ DOMAIN c.repos = DOMAIN repos
        /\ SameFiles(c, Live)
        /\ SameStats(c, Live)

\* what the snapshot file and the WAL file hold together
Durable == replay_wal_entries(load_snapshot(snapshot), wal)

\* C5: at every moment the mutations of the returned calls are recoverable
\* from the saved snapshot and the WAL, also when a call completes while
\* the snapshot writer copies the catalog, saves the snapshot or truncates
\* the WAL: the repositories and the file records of the live catalog are
\* those the snapshot and the WAL yield
C5_ReturnedMutationsDurable ==
    (\A c \in Clients : ~InFlight(c)) =>
        /\ DOMAIN Durable.repos = DOMAIN repos
        /\ SameFiles(Durable, Live)

-----------------------------------------------------------------------------
(* Order of the steps of one call                                          *)

\* in trace tr every event of kind b is preceded by an event of kind a for
\* the same entry type and the same path
Precedes(tr, a, b) ==
    \A i \in 1..Len(tr) :
        tr[i].ev = b =>
            \E j \in 1..(i - 1) :
                /\ tr[j].ev = a
                /\ tr[j].type = tr[i].type
                /\ tr[j].path = tr[i].path

\* the events of a call that belong to its own WAL entry type
Own(f) ==
    LET type == IF f.op = "move" THEN "FileMoved" ELSE "FileCreated"
    IN SelectSeq(f.trace, LAMBDA e : e.type = type)

ByteWriters == {"upload", "copy", "move"}

\* C6: in every call, of a request or of a sweep, each catalog mutation
\* comes after the append of the WAL entry that records it
C6_WalBeforeCatalog ==
    \A t \in Tasks : Precedes(procs[t].trace, "wal", "cat")

\* calls of all three kinds of entry have mutated the catalog: a move has
\* returned, after an upload, in a repository that was created
C6_Witness ==
    /\ procs["c1"].op = "move"
    /\ procs["c1"].result = "ok"
    /\ \E i \in 1..Len(procs["c1"].trace) : procs["c1"].trace[i].ev = "cat"
    /\ HasFile(World, procs["c1"].repo, procs["c1"].dst)

-----------------------------------------------------------------------------
(* Records and blobs under overlapping requests                            *)

\* C8: at every step of overlapping uploads, moves and deletes, a file
\* record that is visible in the catalog has its blob in the byte store
C8_RecordHasBlob ==
    \A r \in DOMAIN files : \A p \in DOMAIN files[r] : FsIsFile(disk, r, p)

\* the FileCreated entry for (r, p) that was appended last
LastCreated(r, p) ==
    LET at == {i \in 1..Len(wal) : /\ wal[i].type = "FileCreated"
                                   /\ wal[i].repo_id = r
                                   /\ wal[i].path = p}
    IN wal[CHOOSE i \in at : \A j \in at : j <= i]

BothUploaded(r, p) ==
    \A c \in Clients :
        /\ procs[c].stepwise
        /\ procs[c].pc = "done"
        /\ procs[c].op = "upload"
        /\ procs[c].result = "ok"
        /\ procs[c].repo = r
        /\ procs[c].path = p

\* C9: after two overlapping uploads to one path have both returned, the
\* record and the blob are those of the upload whose FileCreated entry is
\* the last in the WAL
C9_LastAppendWins ==
    \A r \in RepoIds : \A p \in RacePaths :
        BothUploaded(r, p) =>
            /\ HasFile(World, r, p)
            /\ files[r][p].size_bytes = LastCreated(r, p).size_bytes
            /\ files[r][p].etag = LastCreated(r, p).etag
            /\ FsIsFile(disk, r, p)
            /\ Sha256Hex(disk[r][p].data) = LastCreated(r, p).etag

\* a file record without the fields recovery resets
Persisted(m) ==
    [size_bytes |-> m.size_bytes, etag |-> m.etag, created_at |-> m.created_at,
     updated_at |-> m.updated_at, expires_at |-> m.expires_at]
PersistedCatalog(c) ==
    [repos |-> c.repos,
     files |-> [r \in DOMAIN c.files |->
                   [p \in DOMAIN c.files[r] |-> Persisted(c.files[r][p])]]]

\* C10: replaying the WAL written so far, before reconciliation, yields the
\* live catalog, current_size_bytes and file_count included and
\* last_accessed_at and access_count excluded (the WAL of every state with
\* no call in flight is a prefix of the WAL of the run)
C10_ReplayYieldsLiveCatalog ==
    (Quiescent /\ ~snapshot.present) =>
        PersistedCatalog(replay_wal_entries(EmptyCatalog, wal)) = PersistedCatalog(Live)

-----------------------------------------------------------------------------
(* Reconciliation at startup                                               *)

Replayed == replay_wal_entries(load_snapshot(snapshot), wal)

\* C11: after startup recovery, whatever the snapshot, the WAL and the byte
\* store held, every file index entry of every remaining repository has a
\* blob on disk, every repository whose files directory is missing is gone
\* together with its file index, and current_size_bytes and file_count of
\* every remaining repository are the sum and the count of its entries
C11_ReconciledCatalog ==
    Started =>
        /\ \A r \in DOMAIN repos :
              /\ FsExists(disk, r, Root)
              /\ \A p \in DOMAIN RepoFiles(World, r) : FsIsFile(disk, r, p)
              /\ repos[r].current_size_bytes = SumSizes(RepoFiles(World, r))
              /\ repos[r].file_count = Cardinality(DOMAIN RepoFiles(World, r))
        /\ \A r \in DOMAIN Replayed.repos :
              ~FsExists(disk, r, Root) => (~Has(repos, r) /\ ~Has(files, r))

-----------------------------------------------------------------------------
(* The WAL reader                                                          *)

\* C12: reading a WAL file made of complete frames followed by a torn frame
\* (short length prefix or short payload) or by a frame that does not
\* deserialize succeeds and returns exactly the entries of the complete
\* frames, in append order.
C12_TornTailTolerated ==
    wal_file.read.done =>
        /\ wal_file.read.ok
        /\ wal_file.read.entries = wal_file.whole
C12_Witness ==
    /\ wal_file.read.done
    /\ wal_file.tail = "short_payload"
    /\ Len(wal_file.whole) = MaxFrames
    /\ wal_file.read.entries = wal_file.whole
C12_WitnessCorrupt ==
    /\ wal_file.read.done
    /\ wal_file.tail = "corrupt"
    /\ Len(wal_file.whole) >= 1
C12_WitnessShortPrefix ==
    /\ wal_file.read.done
    /\ wal_file.tail = "short_prefix"
    /\ Len(wal_file.whole) >= 1

-----------------------------------------------------------------------------
(* Admission of an upload                                                  *)

\* the step is an upload by c1 to an existing repository, of a body within
\* max_upload_size, that the byte store did not refuse
UploadStep ==
    /\ nops' = nops + 1
    /\ procs'["c1"].op = "upload"
    /\ Has(repos, procs'["c1"].repo)
    /\ Len(procs'["c1"].data) <= max_upload_size
    /\ procs'["c1"].result # "internal"
Projected ==
    LET f == procs'["c1"] IN
    repos[f.repo].current_size_bytes
        - (IF HasFile(World, f.repo, f.path)
           THEN files[f.repo][f.path].size_bytes ELSE 0)
        + Len(f.data)
Evicted ==
    LET f == procs'["c1"] IN
    (DOMAIN RepoFiles(World, f.repo) \ DOMAIN files'[f.repo]) \ {f.path}

\* C13: an upload whose projected size is within max_size_bytes succeeds and
\* evicts nothing; one whose projected size exceeds it returns, successfully
\* when eviction freed at least projected - max_size_bytes (the evicted files
\* being gone from the index and the byte store), with payload-too-large
\* when it freed less.
C13_UploadAdmission ==
    [][UploadStep =>
        LET f == procs'["c1"]
            max == repos[f.repo].max_size_bytes
        IN  /\ f.pc = "done"
            /\ IF Projected <= max
               THEN f.result = "ok" /\ Evicted = {} /\ f.freed = 0
               ELSE \/ /\ f.freed >= Projected - max
                       /\ f.result = "ok"
                       /\ \A p \in Evicted : ~FsExists(disk', f.repo, p)
                    \/ /\ f.freed < Projected - max
                       /\ f.result = "payload_too_large"]_vars

\* the part of C13 that holds: within the ceiling nothing is evicted and the
\* upload succeeds; above it, with no file to evict, it is refused
C13_WithinCeilingOrRefused ==
    [][UploadStep =>
        LET f == procs'["c1"]
            max == repos[f.repo].max_size_bytes
        IN  IF Projected <= max
            THEN f.pc = "done" /\ f.result = "ok" /\ Evicted = {} /\ f.freed = 0
            ELSE IF RepoFiles(World, f.repo) = EmptyMap
            THEN f.pc = "done" /\ f.result = "payload_too_large"
            ELSE f.pc # "done"]_vars

-----------------------------------------------------------------------------
(* The byte ceiling                                                        *)

\* task c's call returns in this step
Returns(c) == procs'[c].pc = "done" /\ (procs[c].pc # "done" \/ nops' # nops)

\* C14: when an upload or a copy returns successfully, the repository's
\* current_size_bytes is at most its max_size_bytes.
C14_CeilingOnAdmission ==
    [][\A c \in Clients :
          (/\ Returns(c)
           /\ procs'[c].op \in {"upload", "copy"}
           /\ procs'[c].result = "ok"
           /\ Has(repos', procs'[c].repo))
          => repos'[procs'[c].repo].current_size_bytes
                 <= repos'[procs'[c].repo].max_size_bytes]_vars

-----------------------------------------------------------------------------
(* The path validator                                                      *)

Contains(s, ch) == \E i \in 1..Len(s) : s[i] = ch
HasSegment(s, seg) == \E i \in 1..Len(SplitOn(s, Slash)) : SplitOn(s, Slash)[i] = seg
Canonical(s) ==
    /\ s # << >>
    /\ ~Contains(s, BackSlash)
    /\ s[1] # Slash
    /\ ~Contains(s, Nul)
    /\ ~HasSegment(s, <<".">>)
    /\ ~HasSegment(s, <<".", ".">>)

\* C15: every path validate_relative_path returns is non-empty, has '/' as
\* its only separator, no leading '/', no null byte and no segment "." or
\* "..", whatever the input.
C15_OutputCanonical ==
    (path_io.once.done /\ path_io.once.ok) => Canonical(path_io.once.val)

\* the same for inputs without a backslash
C15_CanonicalWithoutBackslash ==
    (path_io.once.done /\ path_io.once.ok /\ ~Contains(path_io.input, BackSlash))
        => Canonical(path_io.once.val)

C16_WitnessRoot ==
    /\ path_io.once.done
    /\ path_io.input = <<Slash, "a">>
    /\ path_io.once.ok /\ path_io.once.val = <<"a">>

\* C17: for every input it accepts, validate_relative_path accepts its own
\* output and returns it unchanged.
C17_Idempotent ==
    path_io.twice.done => (path_io.twice.ok /\ path_io.twice.val = path_io.once.val)

\* the same for inputs without a backslash
C17_IdempotentWithoutBackslash ==
    (path_io.twice.done /\ ~Contains(path_io.input, BackSlash))
        => (path_io.twice.ok /\ path_io.twice.val = path_io.once.val)

-----------------------------------------------------------------------------
(* The shell service                                                       *)

HasChar(arg, ch) == \E i \in 1..Len(arg) : arg[i] = ch
HasDotDot(arg) == \E i \in 1..(Len(arg) - 1) : arg[i] = "." /\ arg[i + 1] = "."
CleanRequest(f) ==
    /\ f.command \in ALLOWED_COMMANDS
    /\ \A i \in 1..Len(f.args) :
          /\ ~HasDotDot(f.args[i])
          /\ \A ch \in {"|", ";", "BQ", "$", "&", "LF", "CR"} : ~HasChar(f.args[i], ch)
Spawns(c) == shell'.reqs[c].spawned /\ ~shell.reqs[c].spawned
ExecReturns(c) == shell'.reqs[c].pc = "done" /\ shell.reqs[c].pc \notin {"idle", "done"}

\* C18: execute_command spawns a process only for a whitelisted command whose
\* arguments contain no ".." and none of | ; backquote $ & newline
\* carriage-return;
\* any other request returns not-found if the repository is unknown and
\* forbidden otherwise, having acquired no permit and spawned nothing.
C18_SpawnOnlyClean ==
    [][\A c \in Clients :
          /\ Spawns(c) => CleanRequest(shell.reqs[c])
          /\ (ExecReturns(c) /\ ~CleanRequest(shell.reqs[c])) =>
                /\ shell'.reqs[c].result =
                       IF Has(repos, shell.reqs[c].repo) THEN "forbidden" ELSE "not_found"
                /\ ~shell'.reqs[c].acquired
                /\ ~shell'.reqs[c].spawned
                /\ shell'.permits = shell.permits
                /\ shell'.running = shell.running]_vars
C18_Witness ==
    \E c, d \in Clients :
        /\ shell.reqs[c].spawned /\ shell.reqs[c].command = "ls"
        /\ shell.reqs[d].pc = "done" /\ shell.reqs[d].result = "forbidden"
        /\ shell.reqs[d].command = "ls" /\ ~CleanRequest(shell.reqs[d])
C18_WitnessCommand ==
    \E d \in Clients :
        /\ shell.reqs[d].pc = "done" /\ shell.reqs[d].result = "forbidden"
        /\ shell.reqs[d].command = "rm"

Holders == {c \in Clients : shell.reqs[c].holds}

\* C19: at most max_concurrent_commands requests hold a permit at any
\* moment, a request that spawns a process or waits for it holds a permit,
\* and a request that has returned holds none, however its process ended.
C19_PermitsBounded ==
    /\ Cardinality(Holders) <= max_concurrent_commands
    /\ shell.permits + Cardinality(Holders) = max_concurrent_commands
    /\ \A c \in Clients :
          /\ shell.reqs[c].pc \in {"ex_spawn", "ex_wait"} => shell.reqs[c].holds
          /\ shell.reqs[c].pc \in {"idle", "done"} => ~shell.reqs[c].holds
C19_Witness ==
    \E c, d \in Clients :
        /\ shell.reqs[c].pc = "ex_wait" /\ shell.reqs[c].holds
        /\ shell.reqs[d].pc = "ex_acquire"
        /\ shell.permits = 0
C19_WitnessReleased ==
    \E c, d \in Clients :
        /\ shell.reqs[c].pc = "done" /\ shell.reqs[c].result = "timed_out"
        /\ shell.running[c] > 0
        /\ shell.reqs[d].holds

-----------------------------------------------------------------------------
(* Moves                                                                   *)

\* the step is a move by c1
MoveStep == nops' = nops + 1 /\ procs'["c1"].op = "move"
\* the move that undoes the one c1 has made
UndoMove ==
    [Call("c1", "move", "mv_repo") EXCEPT
        !.repo = procs'["c1"].repo, !.path = procs'["c1"].dst, !.dst = procs'["c1"].path]
\* two file indexes with the same paths and, but for updated_at, the same records
SameIndex(a, b) ==
    /\ DOMAIN a = DOMAIN b
    /\ \A p \in DOMAIN a : [a[p] EXCEPT !.updated_at = 0] = [b[p] EXCEPT !.updated_at = 0]

\* C20: a move fails with not-found when the source is not indexed and with
\* conflict when the destination is indexed, changing nothing; when it
\* succeeds the source is no longer indexed, the destination holds the
\* source's record (same size_bytes and etag, updated_at set to the time of
\* the move), every other record and the repository's current_size_bytes and
\* file_count are unchanged, and moving back succeeds and restores the paths
\* and records of the original file index.
C20_MoveRekeys ==
    [][MoveStep =>
        LET f == procs'["c1"]
            r == f.repo
            src == f.path
            dst == f.dst
        IN  IF ~HasFile(World, r, src)
            THEN f.result = "not_found"
                 /\ UNCHANGED <<repos, files, wal, disk, snapshot>>
            ELSE IF HasFile(World, r, dst)
            THEN f.result = "conflict"
                 /\ UNCHANGED <<repos, files, wal, disk, snapshot>>
            ELSE f.result = "ok" =>
                 /\ DOMAIN files'[r] = (DOMAIN files[r] \ {src}) \cup {dst}
                 /\ files'[r][dst] = [files[r][src] EXCEPT !.updated_at = clock]
                 /\ files'[r][dst].size_bytes = files[r][src].size_bytes
                 /\ files'[r][dst].etag = files[r][src].etag
                 /\ \A p \in DOMAIN files[r] \ {src} : files'[r][p] = files[r][p]
                 /\ repos'[r].current_size_bytes = repos[r].current_size_bytes
                 /\ repos'[r].file_count = repos[r].file_count
                 /\ \A t \in Times : t >= clock =>
                       \A s \in Run([World EXCEPT !.repos = repos', !.files = files',
                                        !.wal = wal', !.disk = disk', !.clock = t],
                                    UndoMove) :
                           /\ s.f.result = "ok"
                           /\ SameIndex(s.w.files[r], files[r])
                           /\ s.w.repos[r].current_size_bytes = repos[r].current_size_bytes
                           /\ s.w.repos[r].file_count = repos[r].file_count]_vars
C20_Witness ==
    /\ procs["c1"].op = "move" /\ procs["c1"].result = "ok"
    /\ procs["c1"].path = <<"a">> /\ procs["c1"].dst = <<"b">>
    /\ HasFile(World, "r1", <<"b">>) /\ ~HasFile(World, "r1", <<"a">>)
C20_WitnessConflict ==
    /\ procs["c1"].op = "move" /\ procs["c1"].result = "conflict"
    /\ HasFile(World, "r1", procs["c1"].path)

-----------------------------------------------------------------------------
(* Copies                                                                  *)

\* the step is a copy by c1
CopyStep == nops' = nops + 1 /\ procs'["c1"].op = "copy"

\* C21: a successful copy adds a destination record with the source's
\* size_bytes and etag, keeps the source record and every other record,
\* adds the source size to current_size_bytes and one to file_count and
\* appends exactly one FileCreated entry; a copy of an indexed source to an
\* unindexed destination with current_size_bytes + source size above
\* max_size_bytes is refused with payload-too-large and changes nothing; no
\* copy removes a record from the index or appends a FileDeleted entry.
C21_CopyAdds ==
    [][CopyStep =>
        LET f == procs'["c1"]
            r == f.repo
            src == f.path
            dst == f.dst
        IN  /\ f.result = "ok" =>
                 /\ DOMAIN files'[r] = DOMAIN files[r] \cup {dst}
                 /\ dst \notin DOMAIN files[r]
                 /\ files'[r][dst].size_bytes = files[r][src].size_bytes
                 /\ files'[r][dst].etag = files[r][src].etag
                 /\ \A p \in DOMAIN files[r] : files'[r][p] = files[r][p]
                 /\ repos'[r].current_size_bytes =
                        repos[r].current_size_bytes + files[r][src].size_bytes
                 /\ repos'[r].file_count = repos[r].file_count + 1
                 /\ wal' = Append(wal, FileCreated(r, dst, files[r][src].size_bytes,
                                                   files[r][src].etag, clock,
                                                   files[r][src].expires_at))
            /\ (/\ HasFile(World, r, src) /\ ~HasFile(World, r, dst)
                /\ repos[r].current_size_bytes + files[r][src].size_bytes
                       > repos[r].max_size_bytes)
               => (f.result = "payload_too_large"
                   /\ UNCHANGED <<repos, files, wal, disk, snapshot>>)
            /\ \A q \in DOMAIN files :
                   q \in DOMAIN files' /\ DOMAIN files[q] \subseteq DOMAIN files'[q]
            /\ \A i \in (Len(wal) + 1)..Len(wal') : wal'[i].type # "FileDeleted"]_vars
C21_Witness ==
    /\ procs["c1"].op = "copy" /\ procs["c1"].result = "ok"
    /\ HasFile(World, "r1", procs["c1"].path)
    /\ HasFile(World, "r1", procs["c1"].dst)
C21_WitnessRefused ==
    /\ procs["c1"].op = "copy" /\ procs["c1"].result = "payload_too_large"

-----------------------------------------------------------------------------
(* Upload, then delete                                                     *)

WorldAfter ==
    [repos |-> repos', files |-> files', wal |-> wal', snapshot |-> snapshot',
     disk |-> disk', guards |-> guards', clock |-> clock']
\* the step is an upload by c1 that succeeds
UploadOk ==
    nops' = nops + 1 /\ procs'["c1"].op = "upload" /\ procs'["c1"].result = "ok"
\* the step is a delete by c1
DeleteStep == nops' = nops + 1 /\ procs'["c1"].op = "delete"
\* the outcomes of a request that follows the step at time t
Following(f0, t) == Run([WorldAfter EXCEPT !.clock = t], f0)
DeleteUploaded ==
    [Call("c1", "delete", "df_repo") EXCEPT
        !.repo = procs'["c1"].repo, !.path = procs'["c1"].path,
        !.dpath = procs'["c1"].path, !.dret = "df_done"]
ReadUploaded ==
    {[Call("c1", "head", "hf_repo") EXCEPT
        !.repo = procs'["c1"].repo, !.path = procs'["c1"].path],
     [Call("c1", "download", "dl_repo") EXCEPT
        !.repo = procs'["c1"].repo, !.path = procs'["c1"].path]}
\* the delete that follows a successful upload succeeds, and leaves the path
\* not-found for head and download and no blob on disk
DeleteUndoesUpload(s) ==
    /\ s.f.result = "ok"
    /\ ~HasFile(s.w, procs'["c1"].repo, procs'["c1"].path)
    /\ ~FsExists(s.w.disk, procs'["c1"].repo, procs'["c1"].path)
    /\ \A g \in ReadUploaded : \A u \in Run(s.w, g) : u.f.result = "not_found"
DeleteOfUnindexed ==
    (DeleteStep /\ ~HasFile(World, procs'["c1"].repo, procs'["c1"].path))
        => (procs'["c1"].result = "not_found" /\ wal' = wal)

\* C22: after a successful upload of a path and a successful delete of it,
\* head and download of the path return not-found, the blob is absent, and
\* current_size_bytes and file_count are what they were before the upload;
\* a delete of a path that is not indexed returns not-found and appends
\* nothing to the WAL.
C22_DeleteUndoesUpload ==
    [][/\ UploadOk =>
            \A t \in Times : t >= clock' =>
                \A s \in Following(DeleteUploaded, t) :
                    /\ DeleteUndoesUpload(s)
                    /\ s.w.repos[procs'["c1"].repo].current_size_bytes
                           = repos[procs'["c1"].repo].current_size_bytes
                    /\ s.w.repos[procs'["c1"].repo].file_count
                           = repos[procs'["c1"].repo].file_count
       /\ DeleteOfUnindexed]_vars

\* C22, amended: the same, with current_size_bytes and file_count back to
\* their values before the upload when the path was not indexed before it,
\* and to those values less the replaced file's size and less one when the
\* upload replaced a file.
C22_DeleteUndoesNewUpload ==
    [][/\ UploadOk =>
            LET r == procs'["c1"].repo
                p == procs'["c1"].path
                replaced == HasFile(World, r, p)
            IN  \A t \in Times : t >= clock' =>
                    \A s \in Following(DeleteUploaded, t) :
                        /\ DeleteUndoesUpload(s)
                        /\ s.w.repos[r].current_size_bytes
                               = repos[r].current_size_bytes
                                 - (IF replaced THEN files[r][p].size_bytes ELSE 0)
                        /\ s.w.repos[r].file_count
                               = repos[r].file_count - (IF replaced THEN 1 ELSE 0)
       /\ DeleteOfUnindexed]_vars
C22_Witness ==
    /\ procs["c1"].op = "upload" /\ procs["c1"].result = "ok"
    /\ HasFile(World, "r1", procs["c1"].path)
    /\ repos["r1"].file_count = 1
    /\ Len(wal) = 3
C22_WitnessUnindexed ==
    /\ procs["c1"].op = "delete" /\ procs["c1"].result = "not_found"
    /\ Has(repos, "r1")

-----------------------------------------------------------------------------
(* Deleting a repository                                                   *)

\* requests on repository r that follow: one of each kind
LaterCalls(r) ==
    {f \in GetRepoCalls("c1") \cup ListCalls("c1") \cup UploadCalls("c1")
           \cup DownloadCalls("c1") \cup MoveCalls("c1") \cup CopyCalls("c1") :
        f.repo = r}
\* an exec request on repository r, from its first step to its return
RECURSIVE ExecRun(_, _)
ExecRun(sh, c) ==
    IF sh.reqs[c].pc = "done" THEN {sh}
    ELSE UNION {ExecRun(n, c) : n \in execute_command(sh, c)}
LaterExec(r) == ExecRun([NoShell EXCEPT !.reqs["c1"] = ExecFrame(r, "ls", << >>)], "c1")

\* C23: when delete_repo returns success the repository record and its file
\* records are gone from the catalog, its on-disk tree is removed, a
\* RepoDeleted entry is in the WAL, and a get, list, upload, download, move,
\* copy or exec on that id that follows returns not-found; delete_repo on an
\* unknown id returns not-found and changes nothing.
C23_RepoGone ==
    [][\A c \in Clients :
          (Returns(c) /\ procs'[c].op = "delete_repo") =>
              LET r == procs'[c].repo IN
              /\ procs'[c].result = "ok" =>
                    /\ ~Has(repos', r)
                    /\ ~Has(files', r)
                    /\ ~Has(disk', r)
                    /\ \E i \in 1..Len(wal') : wal'[i] = RepoDeleted(r)
                    /\ \A f0 \in LaterCalls(r) : \A t \in Times : t >= clock' =>
                          \A s \in Following(f0, t) : s.f.result = "not_found"
                    /\ \A r0 \in RepoIds : r0 = r =>
                          \A sh \in LaterExec(r0)' : sh.reqs["c1"].result = "not_found"
              /\ procs'[c].result = "not_found" =>
                    UNCHANGED <<repos, files, wal, disk, snapshot>>]_vars

-----------------------------------------------------------------------------
(* The TTL reaper beside the requests.  ttl_reaper::run is its own tokio  *)
(* task; it awaits inside delete_file, and requests are served between    *)
(* any two of its steps.                                                   *)

NoSweepYet == ~procs["ttl"].stepwise
TtlSetupCreate == NoSweepYet /\ SetupCreate
TtlSetupUpload == NoSweepYet /\ SetupUpload
TtlTick == NoOverlapYet /\ Tick
SweepBegin ==
    /\ NoSweepYet
    /\ Start(Call("ttl", "ttl_sweep", "tr_start"))
    /\ UNCHANGED nops
SweepStep == Proceed("ttl")
\* an upload of a path without a TTL, served while the sweep runs
ReuploadBegin ==
    \E f0 \in UploadCalls("c1") :
        /\ f0.ttl = None
        /\ ~procs["c1"].stepwise
        /\ Start(f0)
        /\ UNCHANGED nops
ReuploadStep == Proceed("c1")

NextTtl ==
    \/ TtlSetupCreate
    \/ TtlSetupUpload
    \/ TtlTick
    \/ SweepBegin
    \/ SweepStep
    \/ ReuploadBegin
    \/ ReuploadStep

SpecTtl == Init /\ [][NextTtl]_vars

-----------------------------------------------------------------------------
(* C24 *)

\* the file's expiry has passed at time now (ttl_reaper.rs:30-36)
Expired(m, now) == m.expires_at.some /\ m.expires_at.v <= now
\* the step is a whole sweep of the reaper
WholeSweep == nops' = nops + 1 /\ procs'["ttl"].op = "ttl_sweep"
\* the step is one taken by the reaper
ReaperActs == procs'["ttl"] # procs["ttl"] /\ procs'["ttl"].op = "ttl_sweep"

\* the time at which the sweep that takes the step started
SweepNow == IF procs["ttl"].stepwise THEN procs["ttl"].now ELSE clock

\* C24 (a sweep that overlaps no request): a sweep that starts at time now
\* removes every record whose expires_at <= now together with its blob,
\* appends one FileDeleted entry for each, takes one off file_count for
\* each, and leaves every other record as it was.
C24_SweepDeletesExpired ==
    [][WholeSweep =>
          \A r \in DOMAIN repos :
              LET m == RepoFiles(World, r)
                  gone == ExpiredPaths(m, clock)
              IN
              /\ procs'["ttl"].pc = "done"
              /\ procs'["ttl"].expired = Cardinality(UNION {ExpiredPaths(
                                    RepoFiles(World, q), clock) : q \in DOMAIN repos})
              /\ Has(repos', r)
              /\ DOMAIN RepoFiles(WorldAfter, r) = DOMAIN m \ gone
              /\ \A p \in DOMAIN m \ gone : files'[r][p] = m[p]
              /\ \A p \in gone :
                    /\ ~FsIsFile(disk', r, p)
                    /\ \E i \in Len(wal) + 1 .. Len(wal') : wal'[i] = FileDeleted(r, p)
              /\ Len(wal') = Len(wal) + Cardinality(gone)
              /\ repos'[r].file_count = repos[r].file_count - Cardinality(gone)]_vars

\* C24: no step of the reaper removes from the index a record that has no
\* expiry or whose expiry is later than the time at which the sweep started.
C24_SweepKeepsUnexpired ==
    [][ReaperActs =>
          \A r \in DOMAIN files : \A p \in DOMAIN files[r] :
              ~Expired(files[r][p], SweepNow) => HasFile(WorldAfter, r, p)]_vars

C24_Witness ==
    /\ procs["ttl"].pc = "done"
    /\ procs["ttl"].expired = 1
    /\ \E i \in 1..Len(wal) : wal[i].type = "FileDeleted"

-----------------------------------------------------------------------------
(* C25 *)

\* the step is an update by c1 that succeeds
UpdateOk ==
    nops' = nops + 1 /\ procs'["c1"].op = "update_repo" /\ procs'["c1"].result = "ok"
\* the bodies the request of the step may have had
BodiesOfStep == {b \in UpdateBodies : UpdateRepoRequest(b) = procs'["c1"].patch}
\* what a body asks of an Option<u64> field holding old
Asked(x, old) ==
    CASE x.tag = "absent" -> old
      [] x.tag = "null" -> None
      [] OTHER -> Some(x.v)

\* C25: a successful update changes exactly the fields present in the body;
\* for default_ttl_seconds an absent field leaves the TTL as it was, null
\* clears it and a number sets it.
C25_PatchThreeWay ==
    [][UpdateOk =>
          LET r == procs'["c1"].repo IN
          \A b \in BodiesOfStep :
              /\ repos'[r].default_ttl_seconds =
                     Asked(b.default_ttl_seconds, repos[r].default_ttl_seconds)
              /\ repos'[r].max_size_bytes =
                     IF b.max_size_bytes.tag = "number" THEN b.max_size_bytes.v
                     ELSE repos[r].max_size_bytes
              /\ repos'[r].name = repos[r].name
              /\ repos'[r].current_size_bytes = repos[r].current_size_bytes
              /\ repos'[r].file_count = repos[r].file_count]_vars

\* C25 (what the code does): the same with null read as an absent field;
\* the RepoUpdated entry holds the request as parsed, and replaying the WAL
\* gives the repository record the update left.
C25_PatchNullIsAbsent ==
    [][UpdateOk =>
          LET r == procs'["c1"].repo IN
          \A b \in BodiesOfStep :
              /\ repos'[r].default_ttl_seconds =
                     IF b.default_ttl_seconds.tag = "number"
                     THEN Some(b.default_ttl_seconds.v)
                     ELSE repos[r].default_ttl_seconds
              /\ repos'[r].max_size_bytes =
                     IF b.max_size_bytes.tag = "number" THEN b.max_size_bytes.v
                     ELSE repos[r].max_size_bytes
              /\ wal' = Append(wal, RepoUpdated(r, UpdateRepoRequest(b), clock))
              /\ LET before == replay_wal_entries(load_snapshot(snapshot), wal).repos
                     after == replay_wal_entries(load_snapshot(snapshot), wal').repos
                 IN Has(before, r) =>
                       /\ Has(after, r)
                       /\ after[r].default_ttl_seconds =
                              IF b.default_ttl_seconds.tag = "number"
                              THEN Some(b.default_ttl_seconds.v)
                              ELSE before[r].default_ttl_seconds]_vars

\* a repository with a TTL is sent null for default_ttl_seconds
C25_WitnessNull ==
    /\ procs["c1"].op = "update_repo"
    /\ procs["c1"].result = "ok"
    /\ procs["c1"].patch = UpdateRepoRequest([max_size_bytes |-> JsonAbsent,
                                              default_ttl_seconds |-> JsonNull])
    /\ repos[procs["c1"].repo].default_ttl_seconds = Some(1)

-----------------------------------------------------------------------------
(* C26, C27 *)

\* the step is one of write_snapshot running beside the requests
SnapshotActs ==
    /\ procs["snap"].stepwise
    /\ InFlight("snap")
    /\ procs'["snap"] # procs["snap"]
    /\ procs'["snap"].pc # "idle"
\* the file at the snapshot path
PathFile ==
    [present |-> snapshot.present, repos |-> snapshot.repos,
     files |-> snapshot.files, torn |-> snapshot.torn]
\* the snapshot file holds the whole catalog write_snapshot collected
Installed ==
    /\ snapshot.present
    /\ ~snapshot.torn
    /\ snapshot.repos = procs["snap"].snap_repos
    /\ snapshot.files = procs["snap"].snap_files
\* write_snapshot called again on the state the step leaves
NextTick == Run(WorldAfter, Call("snap", "snapshot", "sw_repos"))

\* C26: the WAL loses entries only in the truncate step of write_snapshot,
\* taken when the snapshot file holds the whole catalog the writer
\* collected and the staging file has been renamed away; every other step
\* of write_snapshot, and a write_snapshot whose save fails, leaves the WAL
\* as it is, and a write_snapshot on the next tick can succeed.
C26_TruncateAfterInstall ==
    [][/\ Len(wal') < Len(wal) =>
             /\ SnapshotActs
             /\ procs["snap"].pc = "sw_truncate"
             /\ Installed
             /\ snapshot.tmp = "absent"
             /\ snapshot' = snapshot
       /\ (SnapshotActs /\ procs["snap"].pc # "sw_truncate") => wal' = wal
       /\ (SnapshotActs /\ procs'["snap"].result = "save_failed") =>
             /\ wal' = wal
             /\ PathFile' = PathFile
             /\ \E s \in NextTick :
                   /\ s.f.result = "ok"
                   /\ s.w.wal = << >>
                   /\ s.w.snapshot.repos = repos'
                   /\ s.w.snapshot.files = files']_vars

\* a save failed with entries in the WAL
C26_Witness ==
    /\ procs["snap"].stepwise
    /\ procs["snap"].result = "save_failed"
    /\ wal # << >>
    /\ snapshot.tmp \in {"torn", "whole"}
\* the truncate step is about to run
C26_WitnessTruncate ==
    /\ procs["snap"].stepwise
    /\ procs["snap"].pc = "sw_truncate"
    /\ wal # << >>

\* C27: the file at the snapshot path never holds a part of a
\* serialization, and it changes only in the rename step of save_snapshot,
\* from a whole staging file, to the whole catalog the writer collected;
\* a restart at any step leaves it as it is.
C27_SnapshotFileWhole ==
    [][/\ ~snapshot'.torn
       /\ PathFile' # PathFile =>
             /\ SnapshotActs
             /\ procs["snap"].pc = "sw_rename"
             /\ snapshot.tmp = "whole"
             /\ snapshot'.present
             /\ snapshot'.repos = procs["snap"].snap_repos
             /\ snapshot'.files = procs["snap"].snap_files]_vars

\* the previous snapshot is in place beside a torn staging file, after a
\* restart
C27_Witness ==
    /\ snapshot.present
    /\ snapshot.repos # EmptyMap
    /\ snapshot.tmp = "torn"
    /\ procs["snap"].pc = "idle"
\* the process is between the write and the rename
C27_WitnessStaged ==
    /\ procs["snap"].pc = "sw_rename"
    /\ snapshot.tmp = "whole"
    /\ snapshot.present

-----------------------------------------------------------------------------
(* Shutdown.  main() serves until the signal, waits for the HTTP layer to *)
(* finish the requests in flight, joins the three background tasks and    *)
(* writes the final snapshot (main.rs:77-119).  Each background task is a *)
(* loop around select! { sleep(interval), shutdown.changed() }.            *)

MaxWakes == 2

\* the body of the loop of a background task
Iteration(t) ==
    CASE t = "ttl" -> Call("ttl", "ttl_sweep", "tr_start")
      [] t = "evict" -> Call("evict", "evict_sweep", "em_start")
      [] OTHER -> Call("snap", "snapshot", "sw_repos")

\* select!: the sleep branch can be taken by a task waiting in its select!,
\* signalled or not (both branches may be ready when the task is polled)
SleepReady(m, t) == m.task[t] = "waiting"
\* select!: the shutdown branch needs the value sent on the watch channel
ShutdownReady(m, t) == m.task[t] = "waiting" /\ m.signalled

MainNextNoJoin(pc) ==
    CASE pc = "serving" -> "draining"
      [] pc = "draining" -> "final"
      [] OTHER -> "exited"

\* the order of main() from axum::serve on
MainNext(pc) ==
    CASE pc = "serving" -> "draining"
      [] pc = "draining" -> "joining"
      [] pc = "joining" -> "final"
      [] OTHER -> "exited"

MainOnly ==
    UNCHANGED <<repos, files, wal, snapshot, disk, guards, clock, procs, used_ids,
                nops, wal_file, path_io, shell>>
\* a task starts a call while main changes too
Beside(f0) ==
    /\ ~InFlight(f0.id)
    /\ procs' = [procs EXCEPT ![f0.id] = [f0 EXCEPT !.stepwise = TRUE]]
    /\ UNCHANGED <<repos, files, wal, snapshot, disk, guards, clock, used_ids, nops,
                   wal_file, path_io, shell>>

\* the locals of a loop body go when it ends
BodyOver(t) ==
    /\ procs' = [procs EXCEPT ![t] = IdleFrame(t)]
    /\ UNCHANGED <<repos, files, wal, snapshot, disk, guards, clock, used_ids, nops,
                   wal_file, path_io, shell>>

\* the shutdown branch of a loop: the snapshot writer writes a snapshot and
\* returns, the others return
TakeShutdown(t) ==
    IF t = "snap"
    THEN Beside(Iteration("snap")) /\ main' = [main EXCEPT !.task[t] = "leaving"]
    ELSE BodyOver(t) /\ main' = [main EXCEPT !.task[t] = "returned"]

\* the sleep branch: the loop body starts
TaskWake ==
    \E t \in Background :
        /\ SleepReady(main, t)
        /\ main.wakes < MaxWakes
        /\ Beside(Iteration(t))
        /\ main' = [main EXCEPT !.task[t] = "iterating", !.wakes = @ + 1,
                                !.late[t] = IF main.signalled THEN @ + 1 ELSE @]
\* the loop body runs on, to its end unless it has to wait
TaskStep ==
    \E t \in Background :
        /\ main.task[t] \in {"iterating", "leaving"}
        /\ InFlight(t)
        /\ \E s \in Run(World, procs[t]) :
              /\ Install(s.w)
              /\ procs' = [procs EXCEPT ![t] = s.f]
        /\ UNCHANGED <<used_ids, nops>>
\* the loop body is over and select! is polled again: with the signal sent
\* only the shutdown branch is ready, since the new sleep has just begun
TaskLoop ==
    \E t \in Background :
        /\ main.task[t] = "iterating"
        /\ procs[t].pc = "done"
        /\ IF procs[t].result = "panic"
           THEN BodyOver(t) /\ main' = [main EXCEPT !.task[t] = "returned"]
           ELSE IF main.signalled THEN TakeShutdown(t)
           ELSE BodyOver(t) /\ main' = [main EXCEPT !.task[t] = "waiting"]
TaskShutdown == \E t \in Background : ShutdownReady(main, t) /\ TakeShutdown(t)
TaskLeave ==
    /\ main.task["snap"] = "leaving"
    /\ procs["snap"].pc = "done"
    /\ BodyOver("snap")
    /\ main' = [main EXCEPT !.task["snap"] = "returned"]

\* shutdown_signal: the value is sent, axum stops accepting
Signal ==
    /\ main.pc = "serving"
    /\ MainOnly
    /\ main' = [main EXCEPT !.signalled = TRUE, !.pc = MainNext("serving")]
\* axum::serve returns when no request is in flight
Drained ==
    /\ main.pc = "draining"
    /\ \A c \in Clients : ~InFlight(c)
    /\ MainOnly
    /\ main' = [main EXCEPT !.pc = MainNext("draining")]
\* tokio::join! of the three handles
Joined ==
    /\ main.pc = "joining"
    /\ \A t \in Background : main.task[t] = "returned"
    /\ MainOnly
    /\ main' = [main EXCEPT !.pc = MainNext("joining")]
\* the write_snapshot of main()
FinalSnapshot ==
    /\ main.pc = "final"
    /\ \E s \in Run(World, Call("snap", "final_snapshot", "sw_repos")) :
          /\ s.f.pc = "done"
          /\ repos' = s.w.repos
          /\ files' = s.w.files
          /\ wal' = s.w.wal
          /\ snapshot' = s.w.snapshot
          /\ disk' = s.w.disk
          /\ guards' = s.w.guards
          /\ clock' = s.w.clock
          /\ procs' = [procs EXCEPT !["snap"] = s.f]
    /\ main' = [main EXCEPT !.pc = MainNext("final")]
    /\ UNCHANGED <<used_ids, nops, wal_file, path_io, shell>>

\* requests served before the background tasks first wake
ServeCreate == main = NoMain /\ SetupCreate
ServeUpload ==
    /\ main = NoMain
    /\ nops < MaxSetup
    /\ NoOverlapYet
    /\ \E f0 \in UploadCalls("c1") :
          /\ f0.path \in RacePaths /\ f0.ttl = None /\ Len(f0.data) = 1
          /\ Atomic(f0)
          /\ UNCHANGED used_ids
\* a request that is in flight beside the background tasks
LastCalls ==
    {f \in UploadCalls("c1") : f.path = <<"b">> /\ f.ttl = None /\ Len(f.data) = 1}
    \cup {f \in DeleteCalls("c1") : f.path \in RacePaths}
LastRequestBegin ==
    /\ main.pc = "serving"
    /\ \E f0 \in LastCalls : ~procs["c1"].stepwise /\ Start(f0) /\ UNCHANGED nops
\* the request runs on, to its return unless it has to wait
LastRequestStep ==
    /\ InFlight("c1")
    /\ procs["c1"].stepwise
    /\ \E s \in Run(World, procs["c1"]) :
          /\ Install(s.w)
          /\ procs' = [procs EXCEPT !["c1"] = s.f]
    /\ UNCHANGED <<used_ids, nops>>

NextShutdown ==
    \/ ServeCreate
    \/ ServeUpload
    \/ LastRequestBegin
    \/ LastRequestStep
    \/ TaskWake
    \/ TaskStep
    \/ TaskLoop
    \/ TaskShutdown
    \/ TaskLeave
    \/ Signal
    \/ Drained
    \/ Joined
    \/ FinalSnapshot

SpecShutdown == Init /\ [][NextShutdown]_vars

-----------------------------------------------------------------------------
(* C28 *)

\* the step is the final write_snapshot of main()
FinalStep == main.pc = "final" /\ main'.pc = "exited"
\* the catalog in the file at the snapshot path after the step
FinalCatalog == [repos |-> snapshot'.repos, files |-> snapshot'.files]

\* C28: after the signal each background task begins at most one more
\* loop body (the one its select! was waiting to begin) and, once returned,
\* does nothing more; the final write_snapshot of main() runs after the
\* signal, with no request in flight and every background task returned,
\* and when it succeeds the snapshot file holds the whole live catalog,
\* the record of every upload that returned success included, and the WAL
\* is empty.
C28_ShutdownOrder ==
    [][/\ \A t \in Background :
             /\ main'.late[t] <= 1
             /\ main.task[t] = "returned" =>
                   /\ main'.task[t] = "returned"
                   /\ procs'[t] # procs[t] => (FinalStep /\ t = "snap")
       /\ FinalStep =>
             /\ main.signalled
             /\ \A t \in Background : main.task[t] = "returned"
             /\ \A t \in Tasks : ~InFlight(t)
             /\ procs'["snap"].result = "ok" =>
                   /\ snapshot'.present
                   /\ ~snapshot'.torn
                   /\ FinalCatalog = [repos |-> repos', files |-> files']
                   /\ wal' = << >>
                   /\ \A c \in Clients :
                         (/\ procs[c].pc = "done"
                          /\ procs[c].op = "upload"
                          /\ procs[c].result = "ok") =>
                             /\ HasFile(FinalCatalog, procs[c].repo, procs[c].path)
                             /\ FinalCatalog.files[procs[c].repo][procs[c].path].size_bytes
                                   = Len(procs[c].data)]_vars

\* main() has exited with the final snapshot written; a request was in
\* flight when the signal came
C28_Witness ==
    /\ main.pc = "exited"
    /\ procs["snap"].result = "ok"
    /\ procs["c1"].stepwise
    /\ procs["c1"].result = "ok"
    /\ HasFile([files |-> snapshot.files], procs["c1"].repo, procs["c1"].path)
\* a sweep of the reaper began after the signal, and the reaper returned
C28_WitnessLate ==
    /\ main.late["ttl"] = 1
    /\ main.task["ttl"] = "returned"
    /\ main.late["snap"] = 1

-----------------------------------------------------------------------------
(* C29 *)

\* the task waits for write access to a repository record on which it
\* holds a Ref itself: no step of its own can ever release the Ref
WaitsOnOwnRef(t) ==
    /\ InFlight(t)
    /\ Step(World, procs[t]) = {}
    /\ t \in guards[procs[t].repo]

\* C29: no task waits for an entry of the catalog on which it holds a
\* reference itself (an upload that evicts does not hold the repository
\* record while delete_file updates that record), so no upload is stuck.
C29_NoRefAcrossAwait == \A t \in Tasks : ~WaitsOnOwnRef(t)

-----------------------------------------------------------------------------
(* C30 *)

\* the repository of the task's call has not been deleted
RepoKept(t) == \A i \in 1..Len(wal) : wal[i] # RepoDeleted(procs[t].repo)

\* C30: evict_bytes does not fail with not-found: a candidate of the
\* scoring snapshot that another request has removed is skipped, at every
\* position of the list.
C30_EvictSkipsRemoved ==
    \A t \in Tasks : RepoKept(t) => procs[t].eres # "not_found"
-----------------------------------------------------------------------------
(* evict_bytes applied to a repository of up to three files with given     *)
(* sizes, access counts and creation times, as a snapshot has just saved   *)
(* it.                                                                      *)

MaxNeeded == 3
MaxAccess == 1
EvictNow == 2
EvictPaths == {<<"a">>, <<"b">>, <<"c">>}
EvictMetas ==
    {[FileMeta(Len(d), Sha256Hex(d), t, None) EXCEPT !.access_count = n] :
        d \in Bodies, t \in Times, n \in 0..MaxAccess}
EvictMaps == UNION {[S -> EvictMetas] : S \in SUBSET EvictPaths}
\* the bytes a record of the index stands for
BodyOf(meta) == CHOOSE d \in Bodies : Sha256Hex(d) = meta.etag

InitEvict ==
    /\ \E m \in EvictMaps :
          /\ files = Put(EmptyMap, "r1", m)
          /\ repos = Put(EmptyMap, "r1",
                         [RepoMeta("n1", 3, None, 0) EXCEPT
                             !.current_size_bytes = SumSizes(m),
                             !.file_count = Cardinality(DOMAIN m)])
          /\ disk = Put(EmptyMap, "r1", [p \in DOMAIN m |-> FileNode(BodyOf(m[p]))])
          /\ snapshot = [NoSnapshot EXCEPT !.present = TRUE, !.repos = repos,
                                           !.files = files]
    /\ wal = << >>
    /\ guards = [r \in RepoIds |-> {}]
    /\ clock = EvictNow
    /\ procs = [t \in Tasks |-> IdleFrame(t)]
    /\ used_ids = {"r1"}
    /\ nops = 0
    /\ AsideIdle

\* evict_bytes run up to its return
RECURSIVE EvictRun(_, _)
EvictRun(w, f) ==
    IF f.pc = "ev_done" THEN One(w, f)
    ELSE UNION {EvictRun(s.w, s.f) : s \in Step(w, f)}

EvictBytes ==
    /\ procs["evict"].pc = "idle"
    /\ \E n \in 0..MaxNeeded :
       \E s \in EvictRun(World, [Call("evict", "evict_bytes", "ev_score") EXCEPT
                                    !.repo = "r1", !.needed = n, !.eret = "ev_done"]) :
          /\ Install(s.w)
          /\ procs' = [procs EXCEPT !["evict"] = s.f]
    /\ nops' = nops + 1
    /\ UNCHANGED used_ids

NextEvict == EvictBytes
SpecEvict == InitEvict /\ [][NextEvict]_vars

\* a has a lower score than b: access_count / max(1, age), compared exactly
LowerScore(a, b, now) ==
    LET age(x) == IF now - x.created_at < 1 THEN 1 ELSE now - x.created_at
    IN a.access_count * age(b) < b.access_count * age(a)
RECURSIVE SizeOfFirst(_, _)
SizeOfFirst(sc, k) == IF k = 0 THEN 0 ELSE sc[k].size + SizeOfFirst(sc, k - 1)

\* C31: one call of evict_bytes(repo, needed) on a repository with no other
\* request in flight returns Ok; the files it deleted are the first k of its
\* candidate list, no file it kept has a lower score (access_count /
\* max(1, age), taken at the start of the call) than a file it deleted; k is
\* the least count whose cumulative size is >= needed, or the whole list; it
\* deletes nothing when needed is 0; it returns the cumulative size of the
\* deleted files.
C31_EvictLowestFirst ==
    [][(procs["evict"].pc = "idle" /\ procs'["evict"].pc = "ev_done") =>
        LET f == procs'["evict"]
            m == files["r1"]
            kept == DOMAIN files'["r1"]
            D == DOMAIN m \ kept
            k == Cardinality(D)
            sc == f.scored
        IN  /\ f.eres = "ok"
            /\ kept \subseteq DOMAIN m
            /\ {sc[i].path : i \in 1..Len(sc)} = DOMAIN m
            /\ Len(sc) = Cardinality(DOMAIN m)
            /\ \A i \in 1..Len(sc) : sc[i].size = m[sc[i].path].size_bytes
            /\ D = {sc[i].path : i \in 1..k}
            /\ \A p \in D : \A q \in kept : ~LowerScore(m[q], m[p], clock)
            /\ \A i, j \in 1..Len(sc) :
                  i < j => ~LowerScore(m[sc[j].path], m[sc[i].path], clock)
            /\ (k > 0 => SizeOfFirst(sc, k - 1) < f.needed)
            /\ (k < Len(sc) => SizeOfFirst(sc, k) >= f.needed)
            /\ (f.needed = 0 => k = 0)
            /\ f.freed = SumOver(m, D)
            /\ \A p \in D : ~FsExists(disk', "r1", p)
            /\ \A p \in kept : files'["r1"][p] = m[p]
    ]_vars
\* an eviction that deleted two files, kept a third and stopped with the
\* target reached
C31_Witness ==
    LET f == procs["evict"] IN
    /\ f.pc = "ev_done"
    /\ Len(f.scored) = 3
    /\ Cardinality(DOMAIN files["r1"]) = 1
    /\ f.freed >= f.needed
    /\ f.needed = 3
    /\ Len(wal) = 2
\* a call with needed = 0 on a repository that holds files
C31_WitnessZero ==
    LET f == procs["evict"] IN
    f.pc = "ev_done" /\ f.needed = 0 /\ Len(f.scored) > 0 /\ wal = << >>
\* a call that ran out of candidates below the target
C31_WitnessShort ==
    LET f == procs["evict"] IN
    /\ f.pc = "ev_done" /\ f.freed < f.needed /\ Len(f.scored) = 2
    /\ files["r1"] = EmptyMap
-----------------------------------------------------------------------------
(* Requests and a snapshot writer after an earlier snapshot: the state     *)
(* right after write_snapshot returned (snapshot file = catalog, WAL       *)
(* empty), then requests, a second snapshot step by step, and restarts.    *)

CheckpointMaps ==
    UNION {[S -> {FileMeta(Len(d), Sha256Hex(d), 0, None) : d \in Bodies}] :
             S \in SUBSET RacePaths}

InitCheckpoint ==
    /\ \E m \in CheckpointMaps :
          /\ files = Put(EmptyMap, "r1", m)
          /\ repos = Put(EmptyMap, "r1",
                         [RepoMeta("n1", 3, None, 0) EXCEPT
                             !.current_size_bytes = SumSizes(m),
                             !.file_count = Cardinality(DOMAIN m)])
          /\ disk = Put(EmptyMap, "r1", [p \in DOMAIN m |-> FileNode(BodyOf(m[p]))])
          /\ snapshot = [NoSnapshot EXCEPT !.present = TRUE, !.repos = repos,
                                           !.files = files]
    /\ wal = << >>
    /\ guards = [r \in RepoIds |-> {}]
    /\ clock = 0
    /\ procs = [t \in Tasks |-> IdleFrame(t)]
    /\ used_ids = {"r1"}
    /\ nops = 0
    /\ AsideIdle

NextCheckpoint ==
    \/ UploadFile
    \/ DeleteFile
    \/ MoveFile
    \/ SnapshotBegin
    \/ SnapshotStep
    \/ Restart

SpecCheckpoint == InitCheckpoint /\ [][NextCheckpoint]_vars

\* the new snapshot is in place and the WAL is not yet truncated
BeforeTruncate == procs["snap"].pc = "sw_truncate"
\* the same paths with the same size_bytes and etag
SameSizeAndEtag(c, d) ==
    \A r \in DOMAIN c.repos \cup DOMAIN d.repos :
        /\ DOMAIN FilesOf(c, r) = DOMAIN FilesOf(d, r)
        /\ \A p \in DOMAIN FilesOf(c, r) \cap DOMAIN FilesOf(d, r) :
              /\ FilesOf(c, r)[p].size_bytes = FilesOf(d, r)[p].size_bytes
              /\ FilesOf(c, r)[p].etag = FilesOf(d, r)[p].etag

\* C32: in every state in which the new snapshot has been renamed into place
\* and the WAL is not yet truncated, with no request in flight, recovery
\* (load the snapshot, replay the whole WAL, reconcile) yields the file index
\* of the live catalog, with the same size_bytes and etag per path.
C32_ReplayOverNewSnapshot ==
    (BeforeTruncate /\ \A t \in Clients : ~InFlight(t))
        => SameSizeAndEtag(Recover(snapshot, wal, disk), Live)
-----------------------------------------------------------------------------
(* The WAL file over two restarts: WalWriter::open after the first         *)
(* recovery opens current.wal in append mode, as it is.                    *)

\* a mutation after the first recovery: append returns
WalAppendRecovered ==
    /\ wal_file.read.done /\ ~wal_file.reread.done
    /\ Len(wal_file.later) < MaxFrames
    /\ \E e \in WalEntries :
          wal_file' = [wal_file EXCEPT !.bytes = @ \o Frame(e),
                                       !.later = Append(@, e)]
    /\ UNCHANGED <<repos, files, wal, snapshot, disk, guards, clock, procs,
                   used_ids, nops, path_io, shell, main>>

\* the following startup reads the file
WalReread ==
    /\ wal_file.read.done /\ ~wal_file.reread.done
    /\ wal_file' = [wal_file EXCEPT !.reread = read_entries(wal_file.bytes)]
    /\ UNCHANGED <<repos, files, wal, snapshot, disk, guards, clock, procs,
                   used_ids, nops, path_io, shell, main>>

NextWalReopen == NextWal \/ WalAppendRecovered \/ WalReread
SpecWalReopen == Init /\ [][NextWalReopen]_vars

\* C33: when the first restart found a torn last frame, the second restart's
\* read_entries returns the entries read at the first restart followed by
\* every entry appended between the two restarts.
C33_LaterEntriesRead ==
    (wal_file.reread.done /\ wal_file.tail \in {"short_prefix", "short_payload"})
        => wal_file.reread.entries = wal_file.read.entries \o wal_file.later
-----------------------------------------------------------------------------
(* A move taken step by step, with a restart possible after every step.    *)

MoveBegin ==
    /\ nops < MaxOps
    /\ \E f0 \in MoveCalls("c1") : Start(f0)
    /\ nops' = nops + 1
MoveProceed == Proceed("c1")

NextMoveCrash ==
    \/ UploadFile
    \/ MoveBegin
    \/ MoveProceed
    \/ Restart

SpecMoveCrash == InitCheckpoint /\ [][NextMoveCrash]_vars

\* the process stops while c1's move is past its WAL append, and recovers
CrashInMove ==
    /\ procs["c1"].op = "move"
    /\ procs["c1"].pc \in {"mv_disk", "mv_remove", "mv_insert", "mv_cleanup"}
    /\ procs'["c1"].pc = "idle"
\* the moved file is indexed at p with its bytes on disk at p
IndexedWithBytes(p) ==
    /\ HasFile(WorldAfter, procs["c1"].repo, p)
    /\ FsIsFile(disk', procs["c1"].repo, p)
    /\ disk'[procs["c1"].repo][p].data = BodyOf(procs["c1"].meta)
    /\ files'[procs["c1"].repo][p].etag = procs["c1"].meta.etag

\* C34: after a restart that interrupts a move past its FileMoved append,
\* the file is indexed at exactly one of source and destination, with its
\* bytes on disk at the indexed path.
C34_CrashInMoveKeepsFile ==
    [][CrashInMove =>
        \/ (IndexedWithBytes(procs["c1"].path)
              /\ ~HasFile(WorldAfter, procs["c1"].repo, procs["c1"].dst))
        \/ (IndexedWithBytes(procs["c1"].dst)
              /\ ~HasFile(WorldAfter, procs["c1"].repo, procs["c1"].path))
    ]_vars
-----------------------------------------------------------------------------
(* Two clients move or copy to one destination, step by step.              *)

DestCalls(id) ==
    {f \in MoveCalls(id) \cup CopyCalls(id) :
        f.path \in RacePaths /\ f.dst = <<"b">>}

DestBegin ==
    \E id \in Clients : \E f0 \in DestCalls(id) :
        ~procs[id].stepwise /\ Start(f0) /\ UNCHANGED nops

NextDest ==
    \/ SetupCreate
    \/ SetupUpload
    \/ DestBegin
    \/ RequestStep

SpecDest == Init /\ [][NextDest]_vars

\* both clients' requests to the destination have returned
BothReturned ==
    \A c \in Clients :
        procs[c].stepwise /\ procs[c].pc = "done" /\ procs[c].op \in {"move", "copy"}

\* C35: of two move or copy requests of one repository to the same
\* destination, at most one succeeds.
C35_OneWriterPerDestination ==
    BothReturned => \E c \in Clients : procs[c].result # "ok"
-----------------------------------------------------------------------------
\* C36: with no request in flight, every key of the file-index map and every
\* directory under repos/ belongs to a repository of the repository map.
C36_NoOrphanOfDeletedRepo ==
    Quiescent => (DOMAIN files \subseteq DOMAIN repos /\ DOMAIN disk \subseteq DOMAIN repos)
-----------------------------------------------------------------------------
(* Uploads against a quota that update_repo can lower below the stored     *)
(* bytes.                                                                   *)

NextQuota ==
    \/ UploadFile
    \/ UpdateRepo
    \/ DeleteFile

SpecQuota == InitCheckpoint /\ [][NextQuota]_vars

\* the step is an upload by c1 that returns payload-too-large
UploadRefused ==
    /\ nops' = nops + 1
    /\ procs'["c1"].op = "upload"
    /\ procs'["c1"].pc = "done"
    /\ procs'["c1"].result = "payload_too_large"

C37_WitnessEvicting ==
    /\ procs["c1"].op = "upload"
    /\ procs["c1"].pc = "df_stats"
    /\ "c1" \in guards["r1"]
    /\ ~HasFile(World, "r1", procs["c1"].dpath)
-----------------------------------------------------------------------------
\* C38: when the reaper appends FileDeleted for a path, and when it removes
\* a blob, the record the index holds for that path at that moment has
\* expires_at <= the now of the sweep; a record uploaded again with a later
\* expiry or none is not deleted.
C38_ReaperChecksAtDeletion ==
    [][ReaperActs =>
          /\ Len(wal') = Len(wal) + 1 =>
                LET e == wal'[Len(wal')] IN
                /\ HasFile(World, e.repo_id, e.path)
                /\ Expired(files[e.repo_id][e.path], SweepNow)
          /\ \A r \in DOMAIN disk : \A p \in DOMAIN disk[r] :
                (FsIsFile(disk, r, p) /\ ~FsIsFile(disk', r, p) /\ HasFile(World, r, p))
                    => Expired(files[r][p], SweepNow)
    ]_vars
-----------------------------------------------------------------------------
\* the step is a request of c1 that returns an error
ReturnsError ==
    /\ nops' = nops + 1
    /\ procs'["c1"].pc = "done"
    /\ procs'["c1"].result \in {"not_found", "conflict", "payload_too_large", "internal"}

\* C39: a request that returns not-found, conflict, payload-too-large or
\* internal appends nothing to the WAL and changes no repository or file
\* record.
C39_ErrorLeavesNoTrace ==
    [][ReturnsError => (wal' = wal /\ repos' = repos /\ files' = files)]_vars
-----------------------------------------------------------------------------
\* the processes spawned by execute_command that have not exited
LiveProcesses == shell.running["c1"] + shell.running["c2"]

\* C40: once a command that timed out has returned (its permit released) its
\* process is no longer running, and the number of live processes never
\* exceeds max_concurrent_commands.
C40_TimedOutProcessGone ==
    /\ \A c \in Clients :
          (shell.reqs[c].pc = "done" /\ shell.reqs[c].result = "timed_out")
              => shell.running[c] = 0
    /\ LiveProcesses <= max_concurrent_commands

=============================================================================
